---- MODULE Spec2Model ----
(***************************************************************************)
(* Agent lifecycle manager: the record store (AgentStore), the two runtime  *)
(* backends (tmux session, Docker container) and the AgentManager           *)
(* operations, together with the host resources they drive: working         *)
(* directories, tmux sessions, assistant processes and containers.          *)
(* The repository ships the manager twice: agent_manager (both backends)    *)
(* and fletcher (containers only).  fletcher imports its own store, utils,  *)
(* docker_utils and container_process; the definitions made here for        *)
(* agent_manager's modules of the same names stand for them.                *)
(* Every manager operation is one action; every external command it runs    *)
(* may fail, and the failure is a nondeterministic input of the action.     *)
(***************************************************************************)
EXTENDS Naturals, Sequences, FiniteSets, TLC

\* Number of distinct values uuid4()[:8] can take in the model.
NumIds == 2
\* Number of spawn_agent calls that get past the preflight and draw an id.
MaxSpawns == 2
\* Largest reading of the clock when AgentStore is driven directly.
MaxClock == 3
\* Largest number of rows of agent_outputs.
MaxOutputs == 2

Ids == 1..NumIds

VARIABLES
    agents,      \* rows of the agents table, in insertion (created_at) order
    dirs,        \* working directories that exist on disk
    sessions,    \* ids i such that tmux session agent-<i> exists
    procs,       \* ids i such that the process whose pid was returned for i exists
    containers,  \* ids i such that container agent-<i> exists (and runs)
    ret,         \* outcome of the last completed manager operation
    everIds,     \* ids of every record that has ever been in the store
    observed,    \* the groups of operations whose outcome ret records, and
                 \* "updated_at" where the updated_at column is followed
    spawned,     \* number of ids spawn_agent has drawn so far
    package,     \* the package whose AgentManager runs: agent_manager or fletcher
    utcnow,      \* the latest reading of datetime.utcnow()
    agent_outputs, \* rows of the agent_outputs table, in id order
    foreign_keys, \* whether this SQLite build enforces foreign keys by default
    calls,       \* the spawn_agent calls in progress, each with its position
    columns      \* the columns of the agents table in the store file

vars == <<agents, dirs, sessions, procs, containers, ret, everIds, observed,
          spawned, package, utcnow, agent_outputs, foreign_keys, calls,
          columns>>

Packages == {"agent_manager", "fletcher"}

----------------------------------------------------------------------------
\* Values

None == [none |-> TRUE]
\* spawn_agent failed before it generated an id
NoId == NumIds + 1
\* status=None given as a filter
NoFilter == "<None>"
Null == [t |-> "null"]
\* pid of the process started for agent i (an int)
Pid(i) == [t |-> "int", v |-> i]
\* id of the container created for agent i (a hex string)
Cid(i) == [t |-> "str", v |-> i]

Statuses == {"spawning", "running", "stopped", "error"}

\* the columns of the agents table, and those a store file written before
\* container_mode was introduced has
Columns ==
    {"id", "repo_url", "working_dir", "pid", "status", "container_mode",
     "created_at", "updated_at"}
LegacyColumns == Columns \ {"container_mode"}

\* ret after an operation that is not among the observed ones
Other == [op |-> "other"]
\* which operation ended, how, and on which id
Brief(r) ==
    [op |-> r.op, res |-> r.res, id |-> IF "id" \in DOMAIN r THEN r.id ELSE NoId]

Observe(group, r) ==
    IF group \in observed THEN r
    ELSE IF "brief" \in observed THEN Brief(r)
    ELSE Other

HttpsUrl == <<"h","t","t","p","s",":","/","/","e",".","c">>
NotAUrl == <<"n","o","t","-","a","-","u","r","l">>
NearUrl == <<"h","t","t","p",":","/","e">>
Urls == {HttpsUrl, NotAUrl, NearUrl}
\* fletcher checks no URL: one well-formed and one malformed input
FlUrls == {HttpsUrl, NotAUrl}

StartsWith(s, p) == Len(s) >= Len(p) /\ SubSeq(s, 1, Len(p)) = p

valid_prefixes ==
    { <<"h","t","t","p",":","/","/">>, <<"h","t","t","p","s",":","/","/">>,
      <<"g","i","t","@">>, <<"g","i","t",":","/","/">> }

validate_repo_url(repo_url) == \E p \in valid_prefixes : StartsWith(repo_url, p)

BaseDir == ".agents"
\* the base directory itself, for every agent
get_agent_working_dir_shared(agent_id) == <<BaseDir>>

get_agent_working_dir(agent_id) == <<BaseDir, agent_id>>

\* `agent['pid']` used as a condition
Truthy(pid) == pid.t # "null"

\* a probe that reports every int pid as running
is_process_running_any(ps, pid) == pid.t = "int"

\* os.kill(pid, 0): a str pid raises TypeError, which is caught
is_process_running(ps, pid) == pid.t = "int" /\ pid.v \in ps

----------------------------------------------------------------------------
\* AgentStore

RowIds(rows) == { rows[k].id : k \in 1..Len(rows) }
StoreHas(rows, agent_id) == agent_id \in RowIds(rows)

\* a SELECT without its WHERE clause
store_get_agent_any(rows, agent_id) ==
    IF rows # <<>> THEN rows[1] ELSE None

store_get_agent(rows, agent_id) ==
    IF StoreHas(rows, agent_id)
    THEN rows[CHOOSE k \in 1..Len(rows) : rows[k].id = agent_id]
    ELSE None

\* the row of agent i in the store
Record(i) == store_get_agent(agents, i)

\* INSERT on a fresh primary key; the caller handles the duplicate key.
\* now: datetime.utcnow().isoformat() of this call
store_create_agent(rows, now, agent_id, repo_url, working_dir, status, container_mode) ==
    Append(rows, [id |-> agent_id, repo_url |-> repo_url,
                  working_dir |-> working_dir, pid |-> Null, status |-> status,
                  container_mode |-> IF container_mode THEN 1 ELSE 0,
                  created_at |-> now, updated_at |-> now])

\* kwargs['updated_at'] = datetime.utcnow().isoformat().  No operation reads
\* the updated_at column: it is followed in the specifications that observe
\* it and keeps the time of the INSERT in the others.
Stamp(row, now) == IF "updated_at" \in observed THEN now ELSE row.updated_at

\* **kwargs of update_agent: keys are the columns given, pid and status their
\* values (read only for the columns given)
Kwargs(keys, pid, status) == [keys |-> keys, pid |-> pid, status |-> status]
NoKwargs == Kwargs({}, Null, "")

\* an update that rewrites the whole row (INSERT OR REPLACE), created_at
\* included
store_update_agent_rewrite(rows, now, agent_id, kwargs) ==
    IF kwargs.keys = {}
    THEN [rows |-> rows, ok |-> FALSE]
    ELSE [rows |-> [k \in 1..Len(rows) |->
                      IF rows[k].id = agent_id
                      THEN [rows[k] EXCEPT
                              !.pid = IF "pid" \in kwargs.keys
                                      THEN kwargs.pid ELSE @,
                              !.status = IF "status" \in kwargs.keys
                                         THEN kwargs.status ELSE @,
                              !.created_at = now + 1,
                              !.updated_at = Stamp(rows[k], now)]
                      ELSE rows[k]],
          ok |-> StoreHas(rows, agent_id)]

\* an update that inserts the row it does not find (an upsert)
store_update_agent_upsert(rows, now, agent_id, kwargs) ==
    IF kwargs.keys = {}
    THEN [rows |-> rows, ok |-> FALSE]
    ELSE IF ~StoreHas(rows, agent_id)
    THEN [rows |-> Append(rows,
                     [id |-> agent_id, repo_url |-> <<>>,
                      working_dir |-> <<BaseDir, agent_id>>,
                      pid |-> kwargs.pid, status |-> kwargs.status,
                      container_mode |-> 0, created_at |-> now,
                      updated_at |-> now]),
          ok |-> TRUE]
    ELSE [rows |-> [k \in 1..Len(rows) |->
                      IF rows[k].id = agent_id
                      THEN [rows[k] EXCEPT
                              !.pid = IF "pid" \in kwargs.keys
                                      THEN kwargs.pid ELSE @,
                              !.status = IF "status" \in kwargs.keys
                                         THEN kwargs.status ELSE @,
                              !.updated_at = Stamp(rows[k], now)]
                      ELSE rows[k]],
          ok |-> TRUE]

\* UPDATE agents SET <keys>, updated_at = now WHERE id = agent_id, and
\* cursor.rowcount > 0; nothing is run when no column is given
store_update_agent(rows, now, agent_id, kwargs) ==
    IF kwargs.keys = {}
    THEN [rows |-> rows, ok |-> FALSE]
    ELSE [rows |-> [k \in 1..Len(rows) |->
                      IF rows[k].id = agent_id
                      THEN [rows[k] EXCEPT
                              !.pid = IF "pid" \in kwargs.keys
                                      THEN kwargs.pid ELSE @,
                              !.status = IF "status" \in kwargs.keys
                                         THEN kwargs.status ELSE @,
                              !.updated_at = Stamp(rows[k], now)]
                      ELSE rows[k]],
          ok |-> StoreHas(rows, agent_id)]

\* an UPDATE that is never committed
store_update_status_lost(rows, now, agent_id, status) == rows

\* update_agent(agent_id, status=status)
store_update_status(rows, now, agent_id, status) ==
    store_update_agent(rows, now, agent_id, Kwargs({"status"}, Null, status)).rows

\* an update that drops the pid column
store_update_pid_status_no_pid(rows, now, agent_id, pid, status) ==
    store_update_agent(rows, now, agent_id, Kwargs({"status"}, Null, status)).rows

\* update_agent(agent_id, pid=pid, status=status)
store_update_pid_status(rows, now, agent_id, pid, status) ==
    store_update_agent(rows, now, agent_id,
                       Kwargs({"pid", "status"}, pid, status)).rows

\* a DELETE that is never committed
store_delete_agent_kept(rows, agent_id) == rows

store_delete_agent(rows, agent_id) ==
    SelectSeq(rows, LAMBDA r : r.id # agent_id)

\* ORDER BY created_at DESC, of a set of rows
RECURSIVE order_by_created_at_desc(_)
order_by_created_at_desc(S) ==
    IF S = {} THEN <<>>
    ELSE LET newest == CHOOSE r \in S : \A q \in S : q.created_at <= r.created_at
         IN  <<newest>> \o order_by_created_at_desc(S \ {newest})

\* `if status:` takes None and the empty string for no filter
store_list_agents(rows, status) ==
    IF status \in {NoFilter, ""}
    THEN order_by_created_at_desc({ rows[k] : k \in 1..Len(rows) })
    ELSE order_by_created_at_desc(
             { rows[k] : k \in { j \in 1..Len(rows) : rows[j].status = status } })

\* the agent_outputs rows left once the agents table holds rows: with foreign
\* keys enforced, ON DELETE CASCADE removes those of a deleted agent
on_delete_cascade(fk, outputs, rows) ==
    IF fk THEN SelectSeq(outputs, LAMBDA o : o.agent_id \in RowIds(rows))
    ELSE outputs

----------------------------------------------------------------------------
\* The host as the manager finds it, and the result of an operation:
\* the host it leaves and the outcome it reports.

Host == [agents |-> agents, dirs |-> dirs, sessions |-> sessions,
         procs |-> procs, containers |-> containers, utcnow |-> utcnow]

Result(h, r) ==
    [agents |-> h.agents, dirs |-> h.dirs, sessions |-> h.sessions,
     procs |-> h.procs, containers |-> h.containers, utcnow |-> h.utcnow,
     ret |-> r]

\* the state after an operation that ends as r and leaves cs in progress
ApplyCalls(r, cs) ==
    /\ agents' = r.agents
    /\ dirs' = r.dirs
    /\ sessions' = r.sessions
    /\ procs' = r.procs
    /\ containers' = r.containers
    /\ ret' = r.ret
    /\ everIds' = everIds \cup RowIds(r.agents)
    /\ observed' = observed
    /\ package' = package
    /\ utcnow' = r.utcnow
    /\ agent_outputs' = on_delete_cascade(foreign_keys, agent_outputs, r.agents)
    /\ foreign_keys' = foreign_keys
    /\ calls' = cs
    /\ columns' = columns

ApplyHost(r) == ApplyCalls(r, calls)

\* r with the calls the operation made on the unit, the directory and the
\* record, in the order it made them; "raise" ends the calls of an operation
\* (or of an iteration) that an exception ended
Traced(r, effects) ==
    [agents |-> r.agents, dirs |-> r.dirs, sessions |-> r.sessions,
     procs |-> r.procs, containers |-> r.containers, utcnow |-> r.utcnow,
     ret |-> r.ret, effects |-> effects]

Apply(r) == ApplyHost(r) /\ spawned' = spawned

\* what an operation that ended as r leaves and reports
Outcome(r) == Result(r, r.ret)

----------------------------------------------------------------------------
\* docker_utils, on a set cs of existing containers

container_exists(cs, i, probeOk) == probeOk /\ i \in cs

\* containers are created with --rm: a stopped container is gone
stop_container(cs, i, ok) == IF ok /\ i \in cs THEN cs \ {i} ELSE cs

remove_container(cs, i, force, ok) ==
    IF ok /\ force /\ i \in cs THEN cs \ {i} ELSE cs

\* which of docker ps / docker stop / docker rm succeed
DockerFaults ==
    { f \in [probe : BOOLEAN, stop : BOOLEAN, rm : BOOLEAN] :
        ~f.probe => (f.stop /\ f.rm) }

\* every docker command succeeds
NoDockerFault == [probe |-> TRUE, stop |-> TRUE, rm |-> TRUE]

\* `if container_exists(name): stop_container(name); remove_container(name, force=True)`
container_teardown(cs, i, f) ==
    IF container_exists(cs, i, f.probe)
    THEN remove_container(stop_container(cs, i, f.stop), i, TRUE, f.rm)
    ELSE cs

\* the docker_utils calls container_teardown makes
teardown_calls(cs, i, f) ==
    IF container_exists(cs, i, f.probe)
    THEN <<"container_exists", "stop_container", "remove_container">>
    ELSE <<"container_exists">>

\* tmux kill-server in place of kill-session: every session ends
tmux_kill_server(h, i, ok) ==
    IF ok THEN [h EXCEPT !.sessions = {}, !.procs = {}] ELSE h

\* tmux kill-session -t agent-<i>, check=False: the pane's process dies with
\* the session
tmux_kill_session(h, i, ok) ==
    IF ok /\ i \in h.sessions
    THEN [h EXCEPT !.sessions = @ \ {i}, !.procs = @ \ {i}]
    ELSE h

\* utils.terminate_process: SIGTERM is sent; term: the process exits on it
terminate_process(ps, pid, term) ==
    IF term /\ pid.t = "int" THEN ps \ {pid.v} ELSE ps

----------------------------------------------------------------------------
\* Runtime backends: spawn_interactive on host h.  Each returns
\*   [ok, ref, prereq, host]
\* ok: it returned ref; ~ok: it raised RuntimeError.  prereq: the runtime
\* prerequisite (tmux / docker and its daemon) was found available.

SessionFaults ==
    { f \in [tmux : BOOLEAN, kill : BOOLEAN, new : BOOLEAN, launch : BOOLEAN] :
        /\ ~f.tmux => (f.kill /\ f.new /\ f.launch)
        /\ ~f.new => f.launch }

AgentProcess_spawn_interactive(h, i, f) ==
    IF ~f.tmux
    THEN [ok |-> FALSE, ref |-> Null, prereq |-> FALSE, host |-> h]
    ELSE
      LET h1 == tmux_kill_session(h, i, f.kill)
          h2 == [h1 EXCEPT !.sessions = @ \cup {i}]
      IN  IF i \in h1.sessions \/ ~f.new
          THEN \* tmux new-session fails (duplicate session, or any error)
               [ok |-> FALSE, ref |-> Null, prereq |-> TRUE, host |-> h1]
          ELSE IF ~f.launch
          THEN \* send-keys / list-panes fails: the new session is left behind
               [ok |-> FALSE, ref |-> Null, prereq |-> TRUE, host |-> h2]
          ELSE [ok |-> TRUE, ref |-> Pid(i), prereq |-> TRUE,
                host |-> [h2 EXCEPT !.procs = @ \cup {i}]]

ContainerFaults ==
    { f \in [docker : BOOLEAN, daemon : BOOLEAN, image : BOOLEAN, probe : BOOLEAN,
             rm : BOOLEAN, create : BOOLEAN, launch : BOOLEAN, cleanup : BOOLEAN] :
        /\ ~f.docker => (f.daemon /\ f.image)
        /\ ~f.daemon => f.image
        /\ ~(f.docker /\ f.daemon /\ f.image) => (f.probe /\ f.create)
        /\ ~f.probe => f.rm
        /\ ~f.create => f.launch
        /\ f.launch => f.cleanup }

ContainerAgentProcess_spawn_interactive(h, i, f) ==
    IF ~f.docker \/ ~f.daemon
    THEN [ok |-> FALSE, ref |-> Null, prereq |-> FALSE, host |-> h]
    ELSE IF ~f.image
    THEN \* image absent and build_agent_image() returned False
         [ok |-> FALSE, ref |-> Null, prereq |-> TRUE, host |-> h]
    ELSE
      LET c1 == IF container_exists(h.containers, i, f.probe)
                THEN remove_container(h.containers, i, TRUE, f.rm)
                ELSE h.containers
      IN  IF i \in c1 \/ ~f.create
          THEN \* docker run fails (name in use, or any error); container_id is None
               [ok |-> FALSE, ref |-> Null, prereq |-> TRUE,
                host |-> [h EXCEPT !.containers = c1]]
          ELSE IF ~f.launch
          THEN \* starting claude fails: remove_container(container_id, force=True)
               [ok |-> FALSE, ref |-> Null, prereq |-> TRUE,
                host |-> [h EXCEPT !.containers =
                            remove_container(c1 \cup {i}, i, TRUE, f.cleanup)]]
          ELSE [ok |-> TRUE, ref |-> Cid(i), prereq |-> TRUE,
                host |-> [h EXCEPT !.containers = c1 \cup {i}]]

BackendRuns(h, use_container, i) ==
    IF use_container
    THEN { ContainerAgentProcess_spawn_interactive(h, i, f) : f \in ContainerFaults }
    ELSE { AgentProcess_spawn_interactive(h, i, f) : f \in SessionFaults }

----------------------------------------------------------------------------
\* AgentManager.spawn_agent

\* what spawn_agent reports, with how far it got: claude (no check found the
\* Claude CLI missing), backend (spawn_interactive was called), inserted (create_agent
\* succeeded), cloned (clone_repository succeeded), prereq (the backend found
\* its runtime), ref (what spawn_interactive returned), wrapped (the error
\* raised is RuntimeError("Failed to spawn agent: <cause>"))
SpawnRet(res, agent_id, repo_url, kind, p) ==
    Observe("spawn",
        [op |-> "spawn_agent", res |-> res, id |-> agent_id, url |-> repo_url,
         kind |-> kind, claude |-> p.claude, inserted |-> p.inserted,
         cloned |-> p.cloned, backend |-> p.backend, prereq |-> p.prereq,
         ref |-> p.ref, wrapped |-> p.wrapped])

Progress0 ==
    [claude |-> TRUE, inserted |-> FALSE, cloned |-> FALSE, backend |-> FALSE,
     prereq |-> TRUE, ref |-> Null, wrapped |-> FALSE]

Kind(use_container) == IF use_container THEN "container" ELSE "session"

\* the checks before the try block; None when they pass
spawn_preflight(h, repo_url, claude) ==
    IF ~claude
    THEN Result(h, SpawnRet("RuntimeError", NoId, repo_url, "n/a",
                            [Progress0 EXCEPT !.claude = FALSE]))
    ELSE IF ~validate_repo_url(repo_url)
    THEN Result(h, SpawnRet("ValueError", NoId, repo_url, "n/a", Progress0))
    ELSE None

\* a handler that cleans up and raises without marking the record
spawn_except_unmarked(h, agent_id, repo_url, use_container, p, rmtreeOk) ==
    LET working_dir == get_agent_working_dir(agent_id)
    IN  IF working_dir \in h.dirs /\ ~rmtreeOk
        THEN Result(h, SpawnRet("OSError", agent_id, repo_url,
                                Kind(use_container), p))
        ELSE Result([h EXCEPT !.dirs = @ \ {working_dir}],
                    SpawnRet("RuntimeError", agent_id, repo_url,
                             Kind(use_container), [p EXCEPT !.wrapped = TRUE]))

\* the except handler, entered on host h; rmtreeOk: shutil.rmtree succeeds
spawn_except(h, agent_id, repo_url, use_container, p, rmtreeOk) ==
    LET working_dir == get_agent_working_dir(agent_id)
        h1 == [h EXCEPT !.agents =
                  store_update_status(@, h.utcnow, agent_id, "error")]
    IN  IF working_dir \in h1.dirs /\ ~rmtreeOk
        THEN Result(h1, SpawnRet("OSError", agent_id, repo_url,
                                 Kind(use_container), p))
        ELSE Result([h1 EXCEPT !.dirs = @ \ {working_dir}],
                    SpawnRet("RuntimeError", agent_id, repo_url,
                             Kind(use_container), [p EXCEPT !.wrapped = TRUE]))

\* the try block after the backend ran with result b
spawn_finish(h, agent_id, repo_url, use_container, p, b, rmtreeOk) ==
    IF b.ok
    THEN Result([b.host EXCEPT !.agents =
                    store_update_pid_status(@, h.utcnow, agent_id, b.ref,
                                            "running")],
                SpawnRet("ok", agent_id, repo_url, Kind(use_container),
                         [p EXCEPT !.backend = TRUE, !.ref = b.ref]))
    ELSE spawn_except(b.host, agent_id, repo_url, use_container,
                      [p EXCEPT !.backend = TRUE, !.prereq = b.prereq], rmtreeOk)

\* git clone fails on the strings that name no repository
git_clones(repo_url) == repo_url \notin {NotAUrl, NearUrl}

\* every way spawn_agent(repo_url, use_container) can end when uuid4 yields agent_id
spawn_agent(h, repo_url, use_container, agent_id) ==
    LET working_dir == get_agent_working_dir(agent_id)
        h0 == [h EXCEPT !.dirs = @ \cup {working_dir}]
    IN
    IF StoreHas(h.agents, agent_id)
    THEN \* create_agent raises sqlite3.IntegrityError
         { spawn_except(h0, agent_id, repo_url, use_container, Progress0, ok) :
             ok \in BOOLEAN }
    ELSE
      LET h1 == [h0 EXCEPT !.utcnow = @ + 1,
                           !.agents =
                    store_create_agent(@, h.utcnow + 1, agent_id, repo_url,
                                       working_dir, "spawning", use_container)]
          p1 == [Progress0 EXCEPT !.inserted = TRUE]
          p2 == [p1 EXCEPT !.cloned = TRUE]
      IN  \* clone_repository raises
          { spawn_except(h1, agent_id, repo_url, use_container, p1, ok) :
              ok \in BOOLEAN }
          \cup
          \* create_and_checkout_branch raises
          { spawn_except(h1, agent_id, repo_url, use_container, p2, ok) :
              ok \in { x \in BOOLEAN : git_clones(repo_url) } }
          \cup
          { spawn_finish(h1, agent_id, repo_url, use_container, p2, b, ok) :
              b \in IF git_clones(repo_url)
                    THEN BackendRuns(h1, use_container, agent_id) ELSE {},
              ok \in BOOLEAN }

\* str(uuid.uuid4())[:8]: any value, whatever the store holds or held
uuid4_prefix == Ids

\* fletcher's utils.generate_agent_id: an id that no record has had
generate_agent_id(ever) == Ids \ ever

\* fletcher's spawn_agent: no check before the id is generated, the container
\* backend, and for the rest the same body
fl_spawn_agent(h, repo_url, agent_id) == spawn_agent(h, repo_url, TRUE, agent_id)

SpawnAgent ==
    \E repo_url \in Urls :
        IF package = "agent_manager"
        THEN \E claude \in BOOLEAN :
               IF spawn_preflight(Host, repo_url, claude) # None
               THEN Apply(spawn_preflight(Host, repo_url, claude))
               ELSE /\ spawned < MaxSpawns
                    /\ spawned' = spawned + 1
                    /\ \E use_container \in BOOLEAN, agent_id \in uuid4_prefix :
                         \E r \in spawn_agent(Host, repo_url, use_container,
                                              agent_id) :
                           ApplyHost(r)
        ELSE /\ repo_url \in FlUrls
             /\ spawned < MaxSpawns
             /\ spawned' = spawned + 1
             /\ \E agent_id \in generate_agent_id(everIds) :
                  \E r \in fl_spawn_agent(Host, repo_url, agent_id) : ApplyHost(r)

----------------------------------------------------------------------------
\* spawn_agent step by step, for callers that run beside it on the same store
\* (each CLI invocation is a process of its own; every store call commits).
\* A call in progress is [id, use_container, pc, ref]: pc is "inserted" after
\* mkdir and create_agent, "started" when spawn_interactive has returned ref,
\* "failed" when something in the try block has raised.

Call(agent_id, use_container, pc, ref) ==
    [id |-> agent_id, use_container |-> use_container, pc |-> pc, ref |-> ref]

\* mkdir and create_agent
spawn_insert(h, repo_url, use_container, agent_id) ==
    LET working_dir == get_agent_working_dir(agent_id)
        h0 == [h EXCEPT !.dirs = @ \cup {working_dir}]
    IN  IF StoreHas(h.agents, agent_id)
        THEN [host |-> h0, pc |-> "failed"]
        ELSE [host |-> [h0 EXCEPT !.utcnow = @ + 1,
                                  !.agents =
                          store_create_agent(@, h.utcnow + 1, agent_id, repo_url,
                                             working_dir, "spawning", use_container)],
              pc |-> "inserted"]

SpawnInsert ==
    /\ spawned < MaxSpawns
    /\ spawned' = spawned + 1
    /\ \E use_container \in IF package = "fletcher" THEN {TRUE} ELSE BOOLEAN,
          agent_id \in IF package = "fletcher"
                       THEN generate_agent_id(everIds) ELSE uuid4_prefix :
          LET s == spawn_insert(Host, HttpsUrl, use_container, agent_id)
              c == Call(agent_id, use_container, s.pc, Null)
          IN  /\ c \notin calls
              /\ ApplyCalls(Result(s.host, Other), calls \cup {c})

\* clone_repository, create_and_checkout_branch and spawn_interactive
SpawnRun ==
    \E c \in calls :
        /\ c.pc = "inserted"
        /\ spawned' = spawned
        /\ \/ \* clone_repository or create_and_checkout_branch raises
              ApplyCalls(Result(Host, Other),
                         (calls \ {c}) \cup {[c EXCEPT !.pc = "failed"]})
           \/ \* git clone makes the working directory when it is gone
              \E b \in BackendRuns([Host EXCEPT !.dirs =
                                        @ \cup {get_agent_working_dir(c.id)}],
                                    c.use_container, c.id) :
                LET c1 == [c EXCEPT !.pc = IF b.ok THEN "started" ELSE "failed",
                                    !.ref = b.ref]
                IN  /\ c1 \notin calls \ {c}
                    /\ ApplyCalls(Result(b.host, Other), (calls \ {c}) \cup {c1})

\* the update_agent that ends the try block, or the except handler
SpawnReturn ==
    \E c \in calls :
        /\ c.pc \in {"started", "failed"}
        /\ spawned' = spawned
        /\ \E r \in { spawn_finish(Host, c.id, HttpsUrl, c.use_container,
                                    [Progress0 EXCEPT !.inserted = TRUE,
                                                      !.cloned = TRUE],
                                    [ok |-> c.pc = "started", ref |-> c.ref,
                                     prereq |-> TRUE, host |-> Host], ok) :
                        ok \in BOOLEAN } :
              ApplyCalls(r, calls \ {c})

----------------------------------------------------------------------------
\* AgentManager.get_agent / list_agents

\* the reconciliation both reads apply to one row they return
Stale(ps, agent) ==
    /\ agent.status = "running"
    /\ Truthy(agent.pid)
    /\ ~is_process_running(ps, agent.pid)

sync_agent(ps, agent) ==
    IF Stale(ps, agent) THEN [agent EXCEPT !.status = "stopped"] ELSE agent

\* the store after update_agent(id, status='stopped') for every stale row of lst
sync_store(ps, rows, lst, now) ==
    [k \in 1..Len(rows) |->
        IF \E j \in 1..Len(lst) : lst[j].id = rows[k].id /\ Stale(ps, lst[j])
        THEN [rows[k] EXCEPT !.status = "stopped",
                             !.updated_at = Stamp(rows[k], now)]
        ELSE rows[k]]

get_agent(h, agent_id) ==
    LET agent == store_get_agent(h.agents, agent_id)
    IN  IF agent = None
        THEN Result(h, Observe("read",
                 [op |-> "get_agent", res |-> "ok", id |-> agent_id,
                  was |-> None, val |-> None, probed |-> TRUE]))
        ELSE Result([h EXCEPT !.agents =
                        sync_store(h.procs, @, <<agent>>, h.utcnow)],
                    Observe("read",
                      [op |-> "get_agent", res |-> "ok", id |-> agent_id,
                       was |-> agent, val |-> sync_agent(h.procs, agent),
                       probed |-> TRUE]))

\* ContainerAgentProcess.is_running on a new object (no container_id):
\* container_exists, then docker inspect and its State.Running; ok: both
\* commands succeed.  A container that exists runs (--rm).
ContainerAgentProcess_is_running(cs, i, ok) ==
    container_exists(cs, i, ok) /\ i \in cs

\* docker: the docker binary is installed; ok: the ids whose probes succeed
FlReadFaults ==
    { f \in [docker : BOOLEAN, ok : SUBSET Ids] : ~f.docker => f.ok = Ids }

\* fletcher's _sync_agent_status demotes when this holds
fl_Stale(cs, agent, f) ==
    /\ agent.status = "running"
    /\ ~ContainerAgentProcess_is_running(cs, agent.id, agent.id \in f.ok)

sync_agent_status(cs, agent, f) ==
    IF fl_Stale(cs, agent, f) THEN [agent EXCEPT !.status = "stopped"] ELSE agent

fl_sync_store(cs, rows, lst, f, now) ==
    [k \in 1..Len(rows) |->
        IF \E j \in 1..Len(lst) : lst[j].id = rows[k].id /\ fl_Stale(cs, lst[j], f)
        THEN [rows[k] EXCEPT !.status = "stopped",
                             !.updated_at = Stamp(rows[k], now)]
        ELSE rows[k]]

\* the docker commands run for the rows of lst all succeeded
Probed(lst, f) ==
    \A k \in 1..Len(lst) : lst[k].status = "running" => lst[k].id \in f.ok

\* without the docker binary the first probe raises FileNotFoundError
fl_get_agent(h, agent_id, f) ==
    LET agent == store_get_agent(h.agents, agent_id)
    IN  IF agent = None
        THEN Result(h, Observe("read",
                 [op |-> "get_agent", res |-> "ok", id |-> agent_id,
                  was |-> None, val |-> None, probed |-> TRUE]))
        ELSE IF agent.status = "running" /\ ~f.docker
        THEN Result(h, Observe("read",
                 [op |-> "get_agent", res |-> "FileNotFoundError",
                  id |-> agent_id, was |-> agent, val |-> None,
                  probed |-> FALSE]))
        ELSE Result([h EXCEPT !.agents =
                        fl_sync_store(h.containers, @, <<agent>>, f, h.utcnow)],
                    Observe("read",
                      [op |-> "get_agent", res |-> "ok", id |-> agent_id,
                       was |-> agent,
                       val |-> sync_agent_status(h.containers, agent, f),
                       probed |-> Probed(<<agent>>, f)]))

GetAgent ==
    \E r \in UNION { IF package = "agent_manager"
                     THEN { get_agent(Host, agent_id) }
                     ELSE { fl_get_agent(Host, agent_id, f) : f \in FlReadFaults } :
                     agent_id \in Ids } :
        Apply(r)

list_agents(h, status) ==
    LET lst == store_list_agents(h.agents, status)
    IN  Result([h EXCEPT !.agents = sync_store(h.procs, @, lst, h.utcnow)],
               Observe("read",
                 [op |-> "list_agents", res |-> "ok", filter |-> status,
                  was |-> lst,
                  val |-> [k \in 1..Len(lst) |-> sync_agent(h.procs, lst[k])],
                  probed |-> TRUE]))

fl_list_agents(h, status, f) ==
    LET lst == store_list_agents(h.agents, status)
    IN  IF ~f.docker /\ \E k \in 1..Len(lst) : lst[k].status = "running"
        THEN \* raised at the first running row; the rows before it are untouched
             Result(h, Observe("read",
                 [op |-> "list_agents", res |-> "FileNotFoundError",
                  filter |-> status, was |-> lst, val |-> None,
                  probed |-> FALSE]))
        ELSE Result([h EXCEPT !.agents =
                        fl_sync_store(h.containers, @, lst, f, h.utcnow)],
                    Observe("read",
                      [op |-> "list_agents", res |-> "ok", filter |-> status,
                       was |-> lst,
                       val |-> [k \in 1..Len(lst) |->
                                  sync_agent_status(h.containers, lst[k], f)],
                       probed |-> Probed(lst, f)]))

\* the filters list_agents is called with: a status, None, or another string
Filters == Statuses \cup {NoFilter, ""}

ListAgents ==
    \E r \in UNION { IF package = "agent_manager"
                     THEN { list_agents(Host, status) }
                     ELSE { fl_list_agents(Host, status, f) : f \in FlReadFaults } :
                     status \in Filters } :
        Apply(r)

----------------------------------------------------------------------------
\* AgentManager.attach_agent

\* was: the record attach_agent loaded; delegated: the backend's attach was
\* invoked; faulty: a command it ran on an existing unit failed
\* ended: how the blocking attach command ended, when it was run
AttachRet(res, agent_id, delegated, was, faulty, ended) ==
    Observe("attach",
        [op |-> "attach_agent", res |-> res, id |-> agent_id,
         delegated |-> delegated, was |-> was, faulty |-> faulty,
         ended |-> ended])

\* How the blocking command (tmux attach-session, docker exec -it <c> /bin/bash)
\* ends: the user detaches or leaves the shell, the manager is interrupted
\* (KeyboardInterrupt), or the command fails to attach.
AttachEnds == {"detach", "interrupt", "fail"}
NotRun == "not run"

\* what attach_agent does once the blocking command of a record of the given
\* kind has ended.  subprocess.run(check=True) raises CalledProcessError on a
\* non-zero status, which becomes RuntimeError; KeyboardInterrupt is caught.
\* tmux attach-session exits 0 on a detach; bash exits with the status of
\* the last command run in it (f.zero: that status is 0).
attach_outcome(container_mode, f) ==
    IF f.attach = "fail" THEN "RuntimeError"
    ELSE IF f.attach = "interrupt" THEN "ok"
    ELSE IF container_mode = 1 /\ ~f.zero THEN "RuntimeError"
    ELSE "ok"

\* binary: docker / tmux is installed; found, found2: the existence probes
\* (container_exists, tmux has-session) succeed; attach: the blocking attach
\* command ends as one of AttachEnds; zero: the shell the user leaves exits
\* with status 0
AttachFaults ==
    { f \in [binary : BOOLEAN, found : BOOLEAN, found2 : BOOLEAN,
             attach : AttachEnds, zero : BOOLEAN] :
        /\ ~f.binary => (f.found /\ f.found2)
        /\ ~f.found => f.found2
        /\ ~f.found2 => f.attach = "detach"
        /\ f.attach # "detach" => f.zero }

\* an attach that goes to the backend without looking for the unit first
attach_agent_unchecked(h, agent_id, f) ==
    LET agent == store_get_agent(h.agents, agent_id)
    IN
    IF agent = None
    THEN Result(h, AttachRet("ValueError", agent_id, FALSE, agent, FALSE, NotRun))
    ELSE IF ~f.binary
    THEN Result(h, AttachRet("FileNotFoundError", agent_id, FALSE, agent, TRUE, NotRun))
    ELSE Result(h, AttachRet(attach_outcome(agent.container_mode, f),
                                   agent_id, TRUE, agent, f.attach = "fail",
                                   f.attach))

attach_agent(h, agent_id, f) ==
    LET agent == store_get_agent(h.agents, agent_id)
    IN
    IF agent = None
    THEN Result(h, AttachRet("ValueError", agent_id, FALSE, agent, FALSE, NotRun))
    ELSE IF ~f.binary
    THEN \* subprocess.run cannot find docker / tmux
         Result(h, AttachRet("FileNotFoundError", agent_id, FALSE, agent, TRUE, NotRun))
    ELSE
      LET exists == IF agent.container_mode = 1 THEN agent_id \in h.containers
                    ELSE agent_id \in h.sessions
          present == IF agent.container_mode = 1
                     THEN container_exists(h.containers, agent_id, f.found)
                     ELSE f.found /\ agent_id \in h.sessions
          present2 == IF agent.container_mode = 1
                      THEN container_exists(h.containers, agent_id, f.found2)
                      ELSE TRUE
      IN  IF ~present
          THEN Result(IF agent.status = "running"
                      THEN [h EXCEPT !.agents =
                               store_update_status(@, h.utcnow, agent_id, "stopped")]
                      ELSE h,
                      AttachRet("RuntimeError", agent_id, FALSE, agent, exists, NotRun))
          ELSE IF ~present2
          THEN Result(h, AttachRet("RuntimeError", agent_id, FALSE, agent, TRUE, NotRun))
          ELSE Result(h, AttachRet(attach_outcome(agent.container_mode, f),
                                   agent_id, TRUE, agent, f.attach = "fail",
                                   f.attach))

\* fletcher: found2 is the outcome of the probes of is_running, attach that
\* of attach_interactive
fl_attach_agent(h, agent_id, f) ==
    LET agent == store_get_agent(h.agents, agent_id)
        demoted == IF agent.status = "running"
                   THEN [h EXCEPT !.agents =
                            store_update_status(@, h.utcnow, agent_id, "stopped")]
                   ELSE h
        exists == agent_id \in h.containers
    IN
    IF agent = None
    THEN Result(h, AttachRet("ValueError", agent_id, FALSE, agent, FALSE, NotRun))
    ELSE IF ~f.binary
    THEN Result(h, AttachRet("FileNotFoundError", agent_id, FALSE, agent, TRUE, NotRun))
    ELSE IF ~container_exists(h.containers, agent_id, f.found)
    THEN Result(demoted, AttachRet("RuntimeError", agent_id, FALSE, agent, exists, NotRun))
    ELSE IF ~ContainerAgentProcess_is_running(h.containers, agent_id, f.found2)
    THEN Result(demoted, AttachRet("RuntimeError", agent_id, FALSE, agent, exists, NotRun))
    ELSE Result(h, AttachRet(attach_outcome(agent.container_mode, f),
                                   agent_id, TRUE, agent, f.attach = "fail",
                                   f.attach))

AttachAgent ==
    \E r \in { IF package = "agent_manager"
               THEN attach_agent(Host, agent_id, f)
               ELSE fl_attach_agent(Host, agent_id, f) :
               agent_id \in Ids, f \in AttachFaults } :
        Apply(r)

----------------------------------------------------------------------------
\* AgentManager.stop_agent / delete_agent

\* binary: docker / tmux is installed; d: the docker commands; kill: tmux
\* kill-session succeeds; term: the process exits on SIGTERM; rmtree:
\* shutil.rmtree succeeds
StopFaults ==
    { f \in [binary : BOOLEAN, d : DockerFaults, kill : BOOLEAN, term : BOOLEAN,
             rmtree : BOOLEAN] :
        ~f.binary => (f.d.probe /\ f.d.stop /\ f.d.rm /\ f.kill /\ f.term /\ f.rmtree) }

\* every command succeeds
StopNoFault ==
    [binary |-> TRUE, d |-> [probe |-> TRUE, stop |-> TRUE, rm |-> TRUE],
     kill |-> TRUE, term |-> TRUE, rmtree |-> TRUE]

\* the failures stop_agent can meet on the record it loaded: none without a
\* record, those of docker for a container agent, those of tmux and of the
\* signal for a session agent
StopFaultsContainer == { f \in StopFaults : f.kill /\ f.term }
StopFaultsSession == { f \in StopFaults : f.d = NoDockerFault }
StopFaultsOf(agent) ==
    IF agent = None THEN {StopNoFault}
    ELSE IF agent.container_mode = 1 THEN StopFaultsContainer
    ELSE StopFaultsSession

\* a docker command of container_teardown fails on an existing container
teardown_fails(cs, i, f) == i \in cs /\ (~f.probe \/ ~f.stop \/ ~f.rm)

\* was: the record stop_agent loaded; faulty: a command it ran on an existing
\* unit or directory failed
StopRet(res, agent_id, remove_workdir, was, faulty) ==
    Observe("stop",
        [op |-> "stop_agent", res |-> res, id |-> agent_id,
         remove_workdir |-> remove_workdir, was |-> was, faulty |-> faulty])

\* a stop_agent that writes the record before it removes the directory
stop_agent_record_first(h, agent_id, remove_workdir, f) ==
    LET agent == store_get_agent(h.agents, agent_id)
    IN
    IF agent = None
    THEN Traced(Result(h, StopRet("ValueError", agent_id, remove_workdir, agent,
                                  FALSE)),
                <<"raise">>)
    ELSE IF ~f.binary
    THEN Traced(Result(h, StopRet("FileNotFoundError", agent_id, remove_workdir,
                                  agent, TRUE)),
                <<IF agent.container_mode = 1 THEN "container_exists"
                  ELSE "kill_session", "raise">>)
    ELSE
      LET k == tmux_kill_session(h, agent_id, f.kill)
          alive == Truthy(agent.pid) /\ is_process_running(k.procs, agent.pid)
          h1 == IF agent.container_mode = 1
                THEN [h EXCEPT !.containers = container_teardown(@, agent_id, f.d)]
                ELSE IF alive
                THEN [k EXCEPT !.procs = terminate_process(@, agent.pid, f.term)]
                ELSE k
          unit == IF agent.container_mode = 1
                  THEN teardown_calls(h.containers, agent_id, f.d)
                  ELSE IF alive THEN <<"kill_session", "terminate_process">>
                  ELSE <<"kill_session">>
          bad == IF agent.container_mode = 1
                 THEN teardown_fails(h.containers, agent_id, f.d)
                 ELSE (agent_id \in h.sessions /\ ~f.kill) \/ (alive /\ ~f.term)
          working_dir == agent.working_dir
          rm == IF working_dir \in h1.dirs THEN <<"rmtree">> ELSE <<>>
          h2 == [h1 EXCEPT !.agents = store_delete_agent(@, agent_id)]
      IN  IF remove_workdir
          THEN IF working_dir \in h2.dirs /\ ~f.rmtree
               THEN Traced(Result(h2, StopRet("OSError", agent_id, remove_workdir,
                                              agent, TRUE)),
                           unit \o <<"delete_agent", "rmtree", "raise">>)
               ELSE Traced(Result([h2 EXCEPT !.dirs = @ \ {working_dir}],
                                  StopRet("ok", agent_id, remove_workdir, agent, bad)),
                           unit \o <<"delete_agent">> \o rm)
          ELSE Traced(Result([h1 EXCEPT !.agents =
                                 store_update_status(@, h.utcnow, agent_id, "stopped")],
                             StopRet("ok", agent_id, remove_workdir, agent, bad)),
                      unit \o <<"update_agent">>)

stop_agent(h, agent_id, remove_workdir, f) ==
    LET agent == store_get_agent(h.agents, agent_id)
    IN
    IF agent = None
    THEN Traced(Result(h, StopRet("ValueError", agent_id, remove_workdir, agent,
                                  FALSE)),
                <<"raise">>)
    ELSE IF ~f.binary
    THEN Traced(Result(h, StopRet("FileNotFoundError", agent_id, remove_workdir,
                                  agent, TRUE)),
                <<IF agent.container_mode = 1 THEN "container_exists"
                  ELSE "kill_session", "raise">>)
    ELSE
      LET k == tmux_kill_session(h, agent_id, f.kill)
          alive == Truthy(agent.pid) /\ is_process_running(k.procs, agent.pid)
          h1 == IF agent.container_mode = 1
                THEN [h EXCEPT !.containers = container_teardown(@, agent_id, f.d)]
                ELSE IF alive
                THEN [k EXCEPT !.procs = terminate_process(@, agent.pid, f.term)]
                ELSE k
          unit == IF agent.container_mode = 1
                  THEN teardown_calls(h.containers, agent_id, f.d)
                  ELSE IF alive THEN <<"kill_session", "terminate_process">>
                  ELSE <<"kill_session">>
          bad == IF agent.container_mode = 1
                 THEN teardown_fails(h.containers, agent_id, f.d)
                 ELSE (agent_id \in h.sessions /\ ~f.kill) \/ (alive /\ ~f.term)
          working_dir == agent.working_dir
          rm == IF working_dir \in h1.dirs THEN <<"rmtree">> ELSE <<>>
      IN  IF remove_workdir
          THEN IF working_dir \in h1.dirs /\ ~f.rmtree
               THEN \* shutil.rmtree raises
                    Traced(Result(h1, StopRet("OSError", agent_id, remove_workdir,
                                              agent, TRUE)),
                           unit \o <<"rmtree", "raise">>)
               ELSE Traced(Result([h1 EXCEPT !.dirs = @ \ {working_dir},
                                             !.agents = store_delete_agent(@, agent_id)],
                                  StopRet("ok", agent_id, remove_workdir, agent, bad)),
                           unit \o rm \o <<"delete_agent">>)
          ELSE Traced(Result([h1 EXCEPT !.agents =
                                 store_update_status(@, h.utcnow, agent_id, "stopped")],
                             StopRet("ok", agent_id, remove_workdir, agent, bad)),
                      unit \o <<"update_agent">>)

\* fletcher's stop_agent is the container branch, which is the one its
\* records take
fl_stop_agent(h, agent_id, remove_workdir, f) ==
    stop_agent(h, agent_id, remove_workdir, f)

StopAgent ==
    \E r \in UNION { { Outcome(IF package = "agent_manager"
                               THEN stop_agent(Host, agent_id, remove_workdir, f)
                               ELSE fl_stop_agent(Host, agent_id, remove_workdir, f)) :
                       remove_workdir \in BOOLEAN,
                       f \in StopFaultsOf(Record(agent_id)) } :
                     agent_id \in Ids } :
        Apply(r)

DeleteFaults ==
    { f \in [binary : BOOLEAN, d : DockerFaults, rmtree : BOOLEAN] :
        ~f.binary => (f.d.probe /\ f.d.stop /\ f.d.rm /\ f.rmtree) }

\* every command succeeds
DeleteNoFault ==
    [binary |-> TRUE, d |-> [probe |-> TRUE, stop |-> TRUE, rm |-> TRUE],
     rmtree |-> TRUE]

\* the failures delete_agent and an iteration of clean_agents can meet on a
\* record: none without a record, those of docker and rmtree for a container
\* agent, that of rmtree for a session agent
DeleteFaultsSession == { f \in DeleteFaults : f.binary /\ f.d = NoDockerFault }
DeleteFaultsOf(agent, faults) ==
    IF agent = None THEN {DeleteNoFault}
    ELSE IF agent.container_mode = 1 THEN faults
    ELSE faults \cap DeleteFaultsSession

\* was: the record delete_agent loaded; faulty: a command it ran on an
\* existing unit or directory failed
DeleteRet(res, agent_id, was, faulty) ==
    Observe("delete",
        [op |-> "delete_agent", res |-> res, id |-> agent_id, was |-> was,
         faulty |-> faulty])

delete_agent(h, agent_id, f) ==
    LET agent == store_get_agent(h.agents, agent_id)
    IN
    IF agent = None
    THEN Traced(Result(h, DeleteRet("ValueError", agent_id, agent, FALSE)),
                <<"raise">>)
    ELSE IF agent.container_mode = 1 /\ ~f.binary
    THEN Traced(Result(h, DeleteRet("FileNotFoundError", agent_id, agent, TRUE)),
                <<"container_exists", "raise">>)
    ELSE
      LET h1 == IF agent.container_mode = 1
                THEN [h EXCEPT !.containers = container_teardown(@, agent_id, f.d)]
                ELSE h
          unit == IF agent.container_mode = 1
                  THEN teardown_calls(h.containers, agent_id, f.d)
                  ELSE <<>>
          bad == agent.container_mode = 1
                    /\ teardown_fails(h.containers, agent_id, f.d)
          working_dir == agent.working_dir
          rm == IF working_dir \in h1.dirs THEN <<"rmtree">> ELSE <<>>
      IN  IF working_dir \in h1.dirs /\ ~f.rmtree
          THEN Traced(Result(h1, DeleteRet("OSError", agent_id, agent, TRUE)),
                      unit \o <<"rmtree", "raise">>)
          ELSE Traced(Result([h1 EXCEPT !.dirs = @ \ {working_dir},
                                        !.agents = store_delete_agent(@, agent_id)],
                             DeleteRet("ok", agent_id, agent, bad)),
                      unit \o rm \o <<"delete_agent">>)

\* fletcher's delete_agent is the container branch
fl_delete_agent(h, agent_id, f) == delete_agent(h, agent_id, f)

DeleteAgent ==
    \E r \in UNION { { Outcome(IF package = "agent_manager"
                               THEN delete_agent(Host, agent_id, f)
                               ELSE fl_delete_agent(Host, agent_id, f)) :
                       f \in DeleteFaultsOf(Record(agent_id), DeleteFaults) } :
                     agent_id \in Ids } :
        Apply(r)

----------------------------------------------------------------------------
\* AgentManager.clean_agents

\* one iteration of the loop on st = [host, cleaned]; an exception raised in
\* it is swallowed by `except Exception: pass`
\* a loop body with `cleaned += 1` in a finally clause
clean_one_counting(agent, st, f) ==
    LET st0 == [st EXCEPT !.faulty =
                   \/ @
                   \/ agent.container_mode = 1 /\ ~f.binary
                   \/ agent.container_mode = 1
                         /\ teardown_fails(st.host.containers, agent.id, f.d)
                   \/ agent.working_dir \in st.host.dirs /\ ~f.rmtree]
    IN
    IF agent.container_mode = 1 /\ ~f.binary
    THEN [st0 EXCEPT !.failed = @ \cup {agent.id}, !.cleaned = @ + 1]
    ELSE
      LET h1 == IF agent.container_mode = 1
                THEN [st0.host EXCEPT !.containers =
                         container_teardown(@, agent.id, f.d)]
                ELSE st0.host
      IN  IF agent.working_dir \in h1.dirs /\ ~f.rmtree
          THEN [st0 EXCEPT !.host = h1, !.failed = @ \cup {agent.id},
                           !.cleaned = @ + 1]
          ELSE [st0 EXCEPT !.host = [h1 EXCEPT !.dirs = @ \ {agent.working_dir},
                                               !.agents = store_delete_agent(@, agent.id)],
                           !.cleaned = @ + 1]

\* st.failed: the ids whose iteration raised; st.faulty: a command run on an
\* existing unit or directory failed
clean_one(agent, st, f) ==
    LET st0 == [st EXCEPT !.faulty =
                   \/ @
                   \/ agent.container_mode = 1 /\ ~f.binary
                   \/ agent.container_mode = 1
                         /\ teardown_fails(st.host.containers, agent.id, f.d)
                   \/ agent.working_dir \in st.host.dirs /\ ~f.rmtree]
    IN
    IF agent.container_mode = 1 /\ ~f.binary
    THEN [st0 EXCEPT !.failed = @ \cup {agent.id},
                     !.effects = Append(@, <<"container_exists", "raise">>)]
    ELSE
      LET h1 == IF agent.container_mode = 1
                THEN [st0.host EXCEPT !.containers =
                         container_teardown(@, agent.id, f.d)]
                ELSE st0.host
          unit == IF agent.container_mode = 1
                  THEN teardown_calls(st0.host.containers, agent.id, f.d)
                  ELSE <<>>
          rm == IF agent.working_dir \in h1.dirs THEN <<"rmtree">> ELSE <<>>
      IN  IF agent.working_dir \in h1.dirs /\ ~f.rmtree
          THEN [st0 EXCEPT !.host = h1, !.failed = @ \cup {agent.id},
                           !.effects = Append(@, unit \o <<"rmtree", "raise">>)]
          ELSE [st0 EXCEPT !.host = [h1 EXCEPT !.dirs = @ \ {agent.working_dir},
                                               !.agents = store_delete_agent(@, agent.id)],
                           !.cleaned = @ + 1,
                           !.effects = Append(@, unit \o rm \o <<"delete_agent">>)]

RECURSIVE clean_loop(_, _, _, _)
\* the states the loop can end in, from iteration k on, when the commands of
\* an iteration fail as one of faults
clean_loop(lst, k, st, faults) ==
    IF k > Len(lst) THEN {st}
    ELSE UNION { clean_loop(lst, k + 1, st2, faults) :
                 st2 \in { clean_one(lst[k], st, f) :
                           f \in DeleteFaultsOf(lst[k], faults) } }

clean_agents_under(h, status, faults) ==
    LET lst == store_list_agents(h.agents, status)
    IN  { Traced(Result(st.host, Observe("clean",
                   [op |-> "clean_agents", res |-> "ok", filter |-> status,
                    was |-> lst, val |-> st.cleaned, failed |-> st.failed,
                    faulty |-> st.faulty])), st.effects) :
          st \in clean_loop(lst, 1, [host |-> h, cleaned |-> 0, failed |-> {},
                                     faulty |-> FALSE, effects |-> <<>>], faults) }

clean_agents(h, status) == clean_agents_under(h, status, DeleteFaults)

\* fletcher's clean_agents is the container branch
fl_clean_agents(h, status) == clean_agents(h, status)

CleanAgents ==
    \E r \in UNION { { Outcome(c) : c \in IF package = "agent_manager"
                                            THEN clean_agents(Host, status)
                                            ELSE fl_clean_agents(Host, status) } :
                     status \in Statuses \cup {NoFilter} } :
        Apply(r)

----------------------------------------------------------------------------
\* AgentManager.attach_all_agents

\* every tmux command of attach_all_agents succeeds
NoDashboardFault ==
    [tmux |-> TRUE, new |-> TRUE, panes |-> Ids, layout |-> TRUE, attach |-> TRUE]

\* tmux: shutil.which finds tmux; new: new-session succeeds; panes: the
\* agents for which split-window and send-keys succeed; layout, attach:
\* select-layout and attach-session succeed.  One kind of failure at a time.
DashboardFaults ==
    { NoDashboardFault,
      [NoDashboardFault EXCEPT !.tmux = FALSE],
      [NoDashboardFault EXCEPT !.new = FALSE],
      [NoDashboardFault EXCEPT !.layout = FALSE],
      [NoDashboardFault EXCEPT !.attach = FALSE] }
    \cup { [NoDashboardFault EXCEPT !.panes = S] : S \in SUBSET Ids }

\* received: the agents list_agents(status='running') returned; linked: the
\* agents whose pane was split and linked; failed: the agent whose
\* split-window or send-keys raised (NoId: none); attached: attach-session
\* was run and ended normally
DashboardRet(res, received, linked, failed, attached, f) ==
    Observe("attach_all",
        [op |-> "attach_all_agents", res |-> res, received |-> received,
         linked |-> linked, failed |-> failed, attached |-> attached, f |-> f])

attach_all_agents(h, f) ==
    IF ~f.tmux
    THEN Result(h, DashboardRet("RuntimeError", <<>>, {}, NoId, FALSE, f))
    ELSE
      LET l == list_agents(h, "running")
          h1 == [h EXCEPT !.agents = l.agents]
          was == store_list_agents(h.agents, "running")
          lst == [k \in 1..Len(was) |-> sync_agent(h.procs, was[k])]
          \* has-session succeeds for the agents whose session exists
          live(k) == lst[k].id \in h.sessions
          bad == { k \in 2..Len(lst) : live(k) /\ lst[k].id \notin f.panes }
          stop == IF bad = {} THEN Len(lst) + 1
                  ELSE CHOOSE k \in bad : \A j \in bad : k <= j
          linked == { lst[k].id : k \in { j \in 2..Len(lst) : j < stop /\ live(j) } }
      IN  IF lst = <<>>
          THEN Result(h1, DashboardRet("RuntimeError", lst, {}, NoId, FALSE, f))
          ELSE IF ~f.new
          THEN Result(h1, DashboardRet("RuntimeError", lst, {}, NoId, FALSE, f))
          ELSE IF bad # {}
          THEN \* check=True: CalledProcessError leaves the loop and the try block
               Result(h1, DashboardRet("RuntimeError", lst, linked, lst[stop].id,
                                       FALSE, f))
          ELSE IF ~f.layout \/ ~f.attach
          THEN Result(h1, DashboardRet("RuntimeError", lst, linked, NoId, FALSE, f))
          ELSE Result(h1, DashboardRet("ok", lst, linked, NoId, TRUE, f))

AttachAllAgents ==
    /\ package = "agent_manager"
    /\ \E f \in DashboardFaults : Apply(attach_all_agents(Host, f))

----------------------------------------------------------------------------
\* The host, outside the manager

\* the assistant process exits
ProcessExits ==
    \E i \in procs : Apply(Result([Host EXCEPT !.procs = @ \ {i}], Other))

\* someone kills the tmux session, and the process in its pane with it
SessionKilled ==
    \E i \in sessions :
        Apply(Result([Host EXCEPT !.sessions = @ \ {i}, !.procs = @ \ {i}], Other))

\* the container exits, and --rm removes it
ContainerExits ==
    \E i \in containers : Apply(Result([Host EXCEPT !.containers = @ \ {i}], Other))

\* someone removes a working directory
DirectoryRemoved ==
    \E d \in dirs : Apply(Result([Host EXCEPT !.dirs = @ \ {d}], Other))

----------------------------------------------------------------------------
\* ContainerAgentProcess and utils.is_process_running, called directly

\* every docker command succeeds
NoBackendFault ==
    [docker |-> TRUE, probe |-> TRUE, stop |-> TRUE, rm |-> TRUE, inspect |-> TRUE]

\* docker: the docker binary is installed (without it subprocess.run raises
\* FileNotFoundError, which docker_utils does not catch); probe, stop, rm,
\* inspect: docker ps / stop / rm / inspect succeed.  One thing fails at a time.
BackendFaults ==
    { NoBackendFault,
      [NoBackendFault EXCEPT !.docker = FALSE],
      [NoBackendFault EXCEPT !.probe = FALSE],
      [NoBackendFault EXCEPT !.stop = FALSE],
      [NoBackendFault EXCEPT !.rm = FALSE],
      [NoBackendFault EXCEPT !.inspect = FALSE] }

\* what a backend call reports: known (this object started the container, so
\* container_id is set), before (the containers there were), val (the value
\* returned), effects (the docker_utils calls made, in order)
BackendRet(op, res, i, known, force, before, val, effects, f) ==
    Observe("backend",
        [op |-> op, res |-> res, id |-> i, known |-> known, force |-> force,
         before |-> before, val |-> val, effects |-> effects, f |-> f])

\* `if self.container_id or docker_utils.container_exists(self.container_name)`
guard_calls(known) == IF known THEN <<>> ELSE <<"container_exists">>

ContainerAgentProcess_stop(h, i, known, f) ==
    IF ~f.docker
    THEN Result(h, BackendRet("stop", "FileNotFoundError", i, known, FALSE,
                              h.containers, None,
                              guard_calls(known) \o
                                (IF known THEN <<"stop_container">> ELSE <<>>)
                                \o <<"raise">>, f))
    ELSE IF known \/ container_exists(h.containers, i, f.probe)
    THEN Result([h EXCEPT !.containers = stop_container(@, i, f.stop)],
                BackendRet("stop", "ok", i, known, FALSE, h.containers, None,
                           guard_calls(known) \o <<"stop_container">>, f))
    ELSE Result(h, BackendRet("stop", "ok", i, known, FALSE, h.containers, None,
                              guard_calls(known), f))

ContainerAgentProcess_remove(h, i, known, force, f) ==
    IF ~f.docker
    THEN Result(h, BackendRet("remove", "FileNotFoundError", i, known, force,
                              h.containers, None,
                              guard_calls(known) \o
                                (IF known THEN <<"remove_container">> ELSE <<>>)
                                \o <<"raise">>, f))
    ELSE IF known \/ container_exists(h.containers, i, f.probe)
    THEN Result([h EXCEPT !.containers = remove_container(@, i, force, f.rm)],
                BackendRet("remove", "ok", i, known, force, h.containers, None,
                           guard_calls(known) \o <<"remove_container">>, f))
    ELSE Result(h, BackendRet("remove", "ok", i, known, force, h.containers,
                              None, guard_calls(known), f))

\* docker inspect <ref> and its State.Running: None when the command fails
get_container_info(cs, i, ok) == IF ok /\ i \in cs THEN [Running |-> TRUE] ELSE None

\* ContainerAgentProcess.is_running as a call that returns or raises
is_running(h, i, known, f) ==
    IF ~f.docker
    THEN Result(h, BackendRet("is_running", "FileNotFoundError", i, known, FALSE,
                              h.containers, None,
                              guard_calls(known) \o
                                (IF known THEN <<"get_container_info">> ELSE <<>>)
                                \o <<"raise">>, f))
    ELSE IF ~(known \/ container_exists(h.containers, i, f.probe))
    THEN Result(h, BackendRet("is_running", "ok", i, known, FALSE, h.containers,
                              FALSE, guard_calls(known), f))
    ELSE LET info == get_container_info(h.containers, i, f.inspect)
         IN  Result(h, BackendRet("is_running", "ok", i, known, FALSE,
                                  h.containers,
                                  IF info = None THEN FALSE ELSE info.Running,
                                  guard_calls(known) \o <<"get_container_info">>,
                                  f))

\* the pid column holds None, a process id, or a container id
PidValues == {Null} \cup { Pid(i) : i \in Ids } \cup { Cid(i) : i \in Ids }

\* an object has container_id once its spawn_interactive has returned; its
\* container may have exited since
Known(i) ==
    { FALSE } \cup { k \in {TRUE} : StoreHas(agents, i) /\ Record(i).pid = Cid(i) }

BackendStop ==
    \E i \in Ids, f \in BackendFaults :
        \E known \in Known(i) : Apply(ContainerAgentProcess_stop(Host, i, known, f))

BackendRemove ==
    \E i \in Ids, force \in BOOLEAN, f \in BackendFaults :
        \E known \in Known(i) :
            Apply(ContainerAgentProcess_remove(Host, i, known, force, f))

BackendIsRunning ==
    \E i \in Ids, f \in BackendFaults :
        \E known \in Known(i) : Apply(is_running(Host, i, known, f))

\* utils.is_process_running(pid): os.kill(pid, 0), False on OSError / TypeError
IsProcessRunning ==
    \E pid \in PidValues :
        Apply(Result(Host, Observe("backend",
                [op |-> "is_process_running", res |-> "ok", pid |-> pid,
                 before |-> procs, val |-> is_process_running(procs, pid)])))

----------------------------------------------------------------------------
\* AgentStore driven directly, by any caller of its methods

\* INSERT OR REPLACE in the place of INSERT
AgentStore_create_agent_replace(rows, now, agent_id, repo_url, working_dir, status, container_mode) ==
    LET rows1 == store_create_agent(store_delete_agent(rows, agent_id), now,
                     agent_id, repo_url, working_dir, status, container_mode)
    IN  [rows |-> rows1, res |-> "ok", val |-> store_get_agent(rows1, agent_id)]

\* create_agent: sqlite3.IntegrityError on a primary key that exists,
\* otherwise the INSERT and get_agent(agent_id)
AgentStore_create_agent(rows, now, agent_id, repo_url, working_dir, status, container_mode) ==
    IF StoreHas(rows, agent_id)
    THEN [rows |-> rows, res |-> "IntegrityError", val |-> None]
    ELSE LET rows1 == store_create_agent(rows, now, agent_id, repo_url,
                                         working_dir, status, container_mode)
         IN  [rows |-> rows1, res |-> "ok",
              val |-> store_get_agent(rows1, agent_id)]

\* add_output: the INSERT fails only if foreign keys are enforced and the
\* agent is missing
AgentStore_add_output(fk, rows, outputs, now, agent_id, output_type, content) ==
    IF fk /\ ~StoreHas(rows, agent_id)
    THEN [outputs |-> outputs, res |-> "IntegrityError"]
    ELSE [outputs |-> Append(outputs,
                        [agent_id |-> agent_id, timestamp |-> now,
                         output_type |-> output_type, content |-> content]),
          res |-> "ok"]

\* the (status, container_mode) pairs create_agent is called with
CreateInputs == { <<"spawning", FALSE>>, <<"running", TRUE>>, <<"stopped", FALSE>> }

\* the **kwargs update_agent is called with
UpdateInputs(i) ==
    { NoKwargs, Kwargs({"status"}, Null, "stopped"),
      Kwargs({"pid", "status"}, Pid(i), "running") }

\* what no store call touches
FileFrame ==
    UNCHANGED <<dirs, sessions, procs, containers, observed, spawned, package,
                foreign_keys, calls>>

StoreFrame == FileFrame /\ UNCHANGED columns

StoreCreateAgent ==
    /\ utcnow < MaxClock
    /\ \E agent_id \in Ids, in \in CreateInputs :
          LET r == AgentStore_create_agent(agents, utcnow + 1, agent_id, HttpsUrl,
                       get_agent_working_dir(agent_id), in[1], in[2])
          IN  /\ agents' = r.rows
              /\ utcnow' = utcnow + 1
              /\ everIds' = everIds \cup RowIds(r.rows)
              /\ ret' = Observe("store",
                           [op |-> "create_agent", res |-> r.res, id |-> agent_id,
                            status |-> in[1], container_mode |-> in[2],
                            val |-> r.val])
              /\ UNCHANGED agent_outputs
              /\ StoreFrame

StoreUpdateAgent ==
    \E agent_id \in Ids :
      \E kwargs \in UpdateInputs(agent_id) :
          LET r == store_update_agent(agents, utcnow, agent_id, kwargs)
          IN  /\ agents' = r.rows
              /\ ret' = Observe("store",
                           [op |-> "update_agent", res |-> "ok", id |-> agent_id,
                            kwargs |-> kwargs, val |-> r.ok])
              /\ UNCHANGED <<utcnow, everIds, agent_outputs>>
              /\ StoreFrame

StoreDeleteAgent ==
    \E agent_id \in Ids :
          /\ agents' = store_delete_agent(agents, agent_id)
          /\ agent_outputs' = on_delete_cascade(foreign_keys, agent_outputs, agents')
          /\ ret' = Observe("store",
                       [op |-> "delete_agent", res |-> "ok", id |-> agent_id,
                        val |-> StoreHas(agents, agent_id)])
          /\ UNCHANGED <<utcnow, everIds>>
          /\ StoreFrame

StoreAddOutput ==
    /\ Len(agent_outputs) < MaxOutputs
    /\ \E agent_id \in Ids :
          LET r == AgentStore_add_output(foreign_keys, agents, agent_outputs,
                                         utcnow, agent_id, "stdout", "x")
          IN  /\ agent_outputs' = r.outputs
              /\ ret' = Observe("store",
                           [op |-> "add_output", res |-> r.res, id |-> agent_id])
              /\ UNCHANGED <<agents, utcnow, everIds>>
              /\ StoreFrame

\* time passes between two calls
Tick ==
    /\ utcnow < MaxClock
    /\ utcnow' = utcnow + 1
    /\ ret' = Other
    /\ UNCHANGED <<agents, agent_outputs, everIds>>
    /\ StoreFrame

----------------------------------------------------------------------------

\* AgentStore.__init__ on a store file: no agents table yet (no columns), a
\* table written before container_mode existed, or the current table

\* DROP TABLE and CREATE TABLE in place of the migration
initialize_schema_recreate(cols, rows) == [columns |-> Columns, rows |-> <<>>]

\* _initialize_schema: CREATE TABLE IF NOT EXISTS, then ALTER TABLE ... ADD
\* COLUMN container_mode INTEGER DEFAULT 0 when the SELECT of it fails
initialize_schema(cols, rows) ==
    IF cols = {} THEN [columns |-> Columns, rows |-> <<>>]
    ELSE IF "container_mode" \in cols THEN [columns |-> cols, rows |-> rows]
    ELSE [columns |-> cols \cup {"container_mode"},
          rows |-> [k \in 1..Len(rows) |->
                      [id |-> rows[k].id, repo_url |-> rows[k].repo_url,
                       working_dir |-> rows[k].working_dir, pid |-> rows[k].pid,
                       status |-> rows[k].status, container_mode |-> 0,
                       created_at |-> rows[k].created_at,
                       updated_at |-> rows[k].updated_at]]]

\* a row of the table without container_mode
LegacyRow(now, agent_id, pid, status) ==
    [id |-> agent_id, repo_url |-> HttpsUrl,
     working_dir |-> get_agent_working_dir(agent_id), pid |-> pid,
     status |-> status, created_at |-> now, updated_at |-> now]

\* the store file gets a row while its table has no container_mode column
LegacyInsert ==
    /\ columns = LegacyColumns
    /\ \E agent_id \in Ids \ RowIds(agents), status \in Statuses :
          \E pid \in {Null, Pid(agent_id)} :
              /\ agents' = Append(agents,
                                  LegacyRow(utcnow + 1, agent_id, pid, status))
              /\ utcnow' = utcnow + 1
              /\ everIds' = everIds \cup {agent_id}
    /\ ret' = Other
    /\ UNCHANGED <<agent_outputs, columns>>
    /\ FileFrame

\* AgentStore(db_path) is constructed on the store file
OpenStore ==
    \E r \in { initialize_schema(columns, agents) } :
        /\ agents' = r.rows
        /\ columns' = r.columns
        /\ ret' = Observe("store",
                     [op |-> "open", res |-> "ok", was |-> agents,
                      migrated |-> columns = LegacyColumns])
        /\ UNCHANGED <<utcnow, everIds, agent_outputs>>
        /\ FileFrame

----------------------------------------------------------------------------

InitHost ==
    /\ agents = <<>>
    /\ dirs = {}
    /\ sessions = {}
    /\ procs = {}
    /\ containers = {}
    /\ ret = Other
    /\ everIds = {}
    /\ spawned = 0
    /\ package \in Packages
    /\ utcnow = 0
    /\ agent_outputs = <<>>
    /\ foreign_keys = FALSE
    /\ calls = {}
    /\ columns = Columns

Init == InitHost /\ observed = {"spawn"}
InitRead == InitHost /\ observed = {"read"}
InitStop == InitHost /\ observed = {"stop", "delete"}
InitClean == InitHost /\ observed = {"clean"}
InitAttach == InitHost /\ observed = {"attach"}
InitOrder == InitHost /\ observed = {"stop"}
InitSteps == InitHost /\ observed = {"spawn", "read"}
InitBrief == InitHost /\ observed = {"brief"}
InitDashboard ==
    InitHost /\ package = "agent_manager" /\ observed = {"attach_all"}
InitBackend == InitHost /\ observed = {"backend"}
InitRace == InitHost /\ observed = {}
InitSync == InitHost /\ observed = {"read", "updated_at"}
\* either answer to PRAGMA foreign_keys, which the store never sets
InitStore ==
    /\ agents = <<>>
    /\ dirs = {}
    /\ sessions = {}
    /\ procs = {}
    /\ containers = {}
    /\ ret = Other
    /\ everIds = {}
    /\ spawned = 0
    /\ package = "agent_manager"
    /\ utcnow = 0
    /\ agent_outputs = <<>>
    /\ foreign_keys \in BOOLEAN
    /\ calls = {}
    /\ columns = Columns
    /\ observed = {"store", "updated_at"}

\* a store file of any age, before the store is opened on it
InitSchema ==
    /\ agents = <<>>
    /\ dirs = {}
    /\ sessions = {}
    /\ procs = {}
    /\ containers = {}
    /\ ret = Other
    /\ everIds = {}
    /\ spawned = 0
    /\ package = "agent_manager"
    /\ utcnow = 0
    /\ agent_outputs = <<>>
    /\ foreign_keys = FALSE
    /\ calls = {}
    /\ columns \in {{}, LegacyColumns, Columns}
    /\ observed = {"store"}

Next ==
    \/ SpawnAgent
    \/ GetAgent
    \/ ListAgents
    \/ AttachAgent
    \/ StopAgent
    \/ DeleteAgent
    \/ CleanAgents
    \/ ProcessExits
    \/ SessionKilled
    \/ ContainerExits
    \/ DirectoryRemoved

NextStore ==
    \/ StoreCreateAgent
    \/ StoreUpdateAgent
    \/ StoreDeleteAgent
    \/ StoreAddOutput
    \/ Tick

\* spawn_agent in steps, beside the reads and the deletions of other processes
NextSteps ==
    \/ SpawnInsert
    \/ SpawnRun
    \/ SpawnReturn
    \/ GetAgent
    \/ ListAgents
    \/ DeleteAgent
    \/ CleanAgents
    \/ ProcessExits
    \/ SessionKilled
    \/ ContainerExits

\* the operations that create and destroy, and the host
\* the operations that take an agent id, between spawns and unit exits
NextBrief ==
    \/ SpawnAgent
    \/ GetAgent
    \/ AttachAgent
    \/ StopAgent
    \/ DeleteAgent
    \/ ProcessExits
    \/ SessionKilled
    \/ ContainerExits

\* the reads, between spawns and unit exits, as time passes
NextSync ==
    \/ SpawnAgent
    \/ GetAgent
    \/ ListAgents
    \/ ProcessExits
    \/ ContainerExits
    \/ Tick

\* spawn_agent in steps beside stop_agent and get_agent of other processes
NextRace ==
    \/ SpawnInsert
    \/ SpawnRun
    \/ SpawnReturn
    \/ StopAgent
    \/ GetAgent
    \/ ProcessExits
    \/ ContainerExits

\* the backend calls, between spawns and unit exits
NextBackend ==
    \/ SpawnAgent
    \/ BackendStop
    \/ BackendRemove
    \/ BackendIsRunning
    \/ IsProcessRunning
    \/ ProcessExits
    \/ ContainerExits

\* attach_all_agents, between spawns and unit exits
NextDashboard ==
    \/ SpawnAgent
    \/ AttachAllAgents
    \/ StopAgent
    \/ ProcessExits
    \/ SessionKilled

\* a store file written to before the store is opened on it
NextSchema ==
    \/ LegacyInsert
    \/ OpenStore

NextOrder ==
    \/ SpawnAgent
    \/ StopAgent
    \/ DeleteAgent
    \/ CleanAgents
    \/ ProcessExits
    \/ SessionKilled
    \/ ContainerExits
    \/ DirectoryRemoved

\* ret records the outcome of spawn_agent
Spec == Init /\ [][Next]_vars
\* ret records the outcome of get_agent and list_agents
SpecRead == InitRead /\ [][Next]_vars
\* ret records the outcome of stop_agent and delete_agent
SpecStop == InitStop /\ [][Next]_vars
\* ret records the outcome of clean_agents
SpecClean == InitClean /\ [][Next]_vars
\* ret records the outcome of attach_agent
SpecAttach == InitAttach /\ [][Next]_vars
\* the methods of AgentStore called directly; ret records their outcome
SpecStore == InitStore /\ [][NextStore]_vars
\* ret records the outcome of stop_agent
SpecOrder == InitOrder /\ [][NextOrder]_vars

SpecBrief == InitBrief /\ [][NextBrief]_vars

SpecSchema == InitSchema /\ [][NextSchema]_vars

SpecDashboard == InitDashboard /\ [][NextDashboard]_vars

SpecBackend == InitBackend /\ [][NextBackend]_vars

SpecRace == InitRace /\ [][NextRace]_vars

SpecSync == InitSync /\ [][NextSync]_vars
\* processes interleaved at the calls of the store; ret records the outcome
\* of spawn_agent, get_agent and list_agents
SpecSteps == InitSteps /\ [][NextSteps]_vars

----------------------------------------------------------------------------
\* Properties

RowsWithId(i) == { k \in 1..Len(agents) : agents[k].id = i }

\* the liveness of the unit a record stands for: the container agent-<id>, or
\* the assistant process of the tmux session agent-<id>
UnitAlive(agent) ==
    IF agent.container_mode = 1 THEN agent.id \in containers
    ELSE agent.id \in procs

\* a URL with none of the schemes http://, https://, git@, git://
Malformed(url) == url \in {NotAUrl, NearUrl}

SpawnReturned == ret.op = "spawn_agent" /\ ret.res = "ok"
SpawnRaisedAfterInsert == ret.op = "spawn_agent" /\ ret.res # "ok" /\ ret.inserted

\* C1: every tmux session agent-<id>, every container agent-<id> and every
\* working directory that exists belongs to an id that has a record.
C1_NoLeakedResources ==
    /\ \A i \in sessions \cup containers : StoreHas(agents, i)
    /\ \A d \in dirs : \E k \in 1..Len(agents) : agents[k].working_dir = d

C3_DeadUnitDemoted ==
    /\ (ret.op = "get_agent" /\ ret.res = "ok" /\ ret.was # None) =>
          ((ret.was.status = "running" /\ ~UnitAlive(ret.was)) =>
              /\ ret.val.status = "stopped"
              /\ Record(ret.id).status = "stopped")
    /\ (ret.op = "list_agents" /\ ret.res = "ok") =>
          \A k \in 1..Len(ret.was) :
              (ret.was[k].status = "running" /\ ~UnitAlive(ret.was[k])) =>
                  /\ ret.val[k].status = "stopped"
                  /\ Record(ret.was[k].id).status = "stopped"

C3_Witness ==
    /\ ret.op = "list_agents"
    /\ ret.res = "ok"
    /\ \E k \in 1..Len(ret.was) :
          /\ ret.was[k].status = "running"
          /\ ret.was[k].container_mode = 0
          /\ ~UnitAlive(ret.was[k])
          /\ ret.val[k].status = "stopped"

\* C4: a record that get_agent / list_agents found 'running' with a unit that
\* is alive (the commands that inspect it having succeeded) is returned
\* 'running' and its stored status stays 'running'.
C4_LiveUnitKept ==
    /\ (ret.op = "get_agent" /\ ret.res = "ok" /\ ret.probed /\ ret.was # None) =>
          ((ret.was.status = "running" /\ UnitAlive(ret.was)) =>
              /\ ret.val.status = "running"
              /\ Record(ret.id).status = "running")
    /\ (ret.op = "list_agents" /\ ret.res = "ok" /\ ret.probed) =>
          \A k \in 1..Len(ret.was) :
              (ret.was[k].status = "running" /\ UnitAlive(ret.was[k])) =>
                  /\ ret.val[k].status = "running"
                  /\ Record(ret.was[k].id).status = "running"

\* C5: when spawn_agent returns an id, the store holds exactly one record
\* with that id: 'running', with the reference the backend returned, of the
\* requested kind, with a working directory that exists and a unit alive.
C5_SpawnSuccess ==
    SpawnReturned =>
        /\ Cardinality(RowsWithId(ret.id)) = 1
        /\ Record(ret.id).status = "running"
        /\ ret.ref # Null
        /\ Record(ret.id).pid = ret.ref
        /\ Record(ret.id).container_mode = (IF ret.kind = "container" THEN 1 ELSE 0)
        /\ Record(ret.id).repo_url = ret.url
        /\ Record(ret.id).working_dir \in dirs
        /\ UnitAlive(Record(ret.id))

C5_Witness ==
    /\ SpawnReturned
    /\ ret.kind = "container"
    /\ Record(ret.id).pid = Cid(ret.id)
    /\ ret.id \in containers

\* C6: when spawn_agent raises after inserting its record, the record is
\* kept with status 'error', its working directory is gone, and the error
\* raised is the spawn failure wrapping the cause.
C6_SpawnFailureRollback ==
    SpawnRaisedAfterInsert =>
        /\ Record(ret.id) # None
        /\ Record(ret.id).status = "error"
        /\ Record(ret.id).working_dir \notin dirs
        /\ ret.res = "RuntimeError"
        /\ ret.wrapped

\* C7: an id spawn_agent returns is the id of no record that exists or has
\* ever existed.
C7_IdNeverReused ==
    [][(ret'.op = "spawn_agent" /\ ret'.res = "ok" /\ spawned' = spawned + 1)
          => ret'.id \notin everIds]_vars

NoSharedWorkingDir ==
    \A j, k \in 1..Len(agents) :
        j # k => agents[j].working_dir # agents[k].working_dir

\* C8: no two records share a working directory, and a spawn_agent that
\* returns right after another one that returned yields another id and
\* another working directory.
C8_DistinctWorkingDirs ==
    [][/\ NoSharedWorkingDir'
       /\ (SpawnReturned /\ SpawnReturned' /\ spawned' = spawned + 1) =>
             /\ ret'.id # ret.id
             /\ store_get_agent(agents', ret'.id) # None
             /\ store_get_agent(agents', ret.id) # None
             /\ store_get_agent(agents', ret'.id).working_dir
                   # store_get_agent(agents', ret.id).working_dir]_vars

C8_Witness ==
    /\ SpawnReturned
    /\ Len(agents) = 2
    /\ agents[1].repo_url = agents[2].repo_url
    /\ agents[1].status = "running"
    /\ agents[2].id = ret.id

\* C9: a spawn_agent called with a malformed URL (and not stopped by a missing
\* Claude CLI, which agent_manager looks for first) fails with the validation
\* error, having inserted no record, created no working directory and started
\* no unit.
C9_MalformedUrlRejected ==
    [][(ret'.op = "spawn_agent" /\ Malformed(ret'.url) /\ ret'.claude) =>
          /\ ret'.res = "ValueError"
          /\ ~ret'.inserted
          /\ UNCHANGED <<agents, dirs, sessions, procs, containers>>]_vars

\* C10: when the runtime prerequisite of the selected backend is missing,
\* spawn_agent fails having inserted no record and made no clone.
C10_PrereqBeforeMutation ==
    (ret.op = "spawn_agent" /\ ~ret.prereq) =>
        /\ ret.res # "ok"
        /\ ~ret.inserted
        /\ ~ret.cloned

\* the unit of a record exists: its container, or its tmux session
UnitExists(agent) ==
    IF agent.container_mode = 1 THEN agent.id \in containers
    ELSE agent.id \in sessions

StopReturned == ret.op = "stop_agent" /\ ret.res = "ok"

\* C11: when spawn_interactive was called and failed, spawn_agent raises and
\* no unit agent-<id> of the backend's kind exists.
C11_FailedStartLeavesNoUnit ==
    (ret.op = "spawn_agent" /\ ret.backend /\ ret.res # "ok") =>
        /\ ret.kind = "session" => ret.id \notin sessions
        /\ ret.kind = "container" => ret.id \notin containers

\* C12: when stop_agent(id, remove_workdir=True) has returned on an existing
\* record, the store has no record for id and the record's working directory
\* does not exist.
C12_StopRemovesRecordAndDir ==
    (StopReturned /\ ret.remove_workdir) =>
        /\ Record(ret.id) = None
        /\ ret.was.working_dir \notin dirs

C12_Witness ==
    /\ StopReturned /\ ret.remove_workdir
    /\ ret.was.status = "running"
    /\ ret.was.container_mode = 0
    /\ Record(ret.id) = None

\* C13: a stop_agent(id, remove_workdir=False) that returns on an existing
\* record leaves the record with status 'stopped' and leaves its working
\* directory in place.
C13_StopKeepsRecordAndDir ==
    [][(ret'.op = "stop_agent" /\ ret'.res = "ok" /\ ~ret'.remove_workdir) =>
          /\ store_get_agent(agents', ret'.id) # None
          /\ store_get_agent(agents', ret'.id).status = "stopped"
          /\ dirs' = dirs]_vars

C13_Witness ==
    /\ StopReturned /\ ~ret.remove_workdir
    /\ ret.was.status = "running"
    /\ Record(ret.id).status = "stopped"
    /\ ret.was.working_dir \in dirs

\* C14: when stop_agent has returned True, the unit of the record it stopped
\* does not exist.
C14_StoppedUnitGone ==
    StopReturned => ~UnitExists(ret.was)

\* C15: delete_agent on an existing record (no command failing) returns True,
\* and then the record's unit does not exist, its working directory does not
\* exist and the store has no record for the id.
C15_DeleteRemovesAll ==
    (ret.op = "delete_agent" /\ ret.was # None /\ ~ret.faulty) =>
        /\ ret.res = "ok"
        /\ ~UnitExists(ret.was)
        /\ ret.was.working_dir \notin dirs
        /\ Record(ret.id) = None

HostOf(r) ==
    [agents |-> r.agents, dirs |-> r.dirs, sessions |-> r.sessions,
     procs |-> r.procs, containers |-> r.containers]

\* host h after the unit and / or the working directory of a record were
\* removed behind the manager's back
WithoutResources(h, agent, unit, dir) ==
    LET h1 == IF ~unit THEN h
              ELSE IF agent.container_mode = 1
              THEN [h EXCEPT !.containers = @ \ {agent.id}]
              ELSE [h EXCEPT !.sessions = @ \ {agent.id}, !.procs = @ \ {agent.id}]
    IN  IF dir THEN [h1 EXCEPT !.dirs = @ \ {agent.working_dir}] ELSE h1

\* C16: for every record, stop_agent, delete_agent and clean_agents (no
\* command failing) applied after its unit and / or working directory were
\* removed externally do not raise and end in the state they end in when
\* applied with the resources present.
C16_GoneResourcesSameOutcome ==
    \A k \in 1..Len(agents) : \A unit, dir \in BOOLEAN :
        LET agent == agents[k]
            gone == WithoutResources(Host, agent, unit, dir)
        IN  /\ \A r \in BOOLEAN :
                 LET x == stop_agent(gone, agent.id, r, StopNoFault)
                     y == stop_agent(Host, agent.id, r, StopNoFault)
                 IN  x.ret.res = "ok" /\ HostOf(x) = HostOf(y)
            /\ LET x == delete_agent(gone, agent.id, DeleteNoFault)
                    y == delete_agent(Host, agent.id, DeleteNoFault)
                IN  x.ret.res = "ok" /\ HostOf(x) = HostOf(y)
            /\ { HostOf(x) : x \in clean_agents_under(gone, agent.status,
                                                       {DeleteNoFault}) }
                 = { HostOf(y) : y \in clean_agents_under(Host, agent.status,
                                                          {DeleteNoFault}) }

\* a call of stop_agent right after a stop_agent that returned, with the
\* same arguments and no command failing
SecondStop ==
    /\ StopReturned
    /\ ret'.op = "stop_agent" /\ ~ret'.faulty
    /\ ret'.id = ret.id /\ ret'.remove_workdir = ret.remove_workdir

\* a call of delete_agent right after a delete_agent that returned, with the
\* same id and no command failing
SecondDelete ==
    /\ ret.op = "delete_agent" /\ ret.res = "ok"
    /\ ret'.op = "delete_agent" /\ ~ret'.faulty
    /\ ret'.id = ret.id

IdsOf(lst) == { lst[k].id : k \in 1..Len(lst) }
SessionIdsOf(lst) == { lst[k].id : k \in { j \in 1..Len(lst) : lst[j].container_mode = 0 } }
ContainerIdsOf(lst) == { lst[k].id : k \in { j \in 1..Len(lst) : lst[j].container_mode = 1 } }
DirsOf(lst) == { lst[k].working_dir : k \in 1..Len(lst) }

\* C18: a clean_agents(status) in which no command fails worked on the
\* records whose stored status was status at the call (all records for None),
\* removes exactly these records, their working directories and their units,
\* touches nothing else and returns their number.
C18_CleanRemovesExactlyMatching ==
    [][(ret'.op = "clean_agents" /\ ~ret'.faulty) =>
          /\ ret'.was = store_list_agents(agents, ret'.filter)
          /\ \A k \in 1..Len(agents) :
                (agents[k] \in { ret'.was[j] : j \in 1..Len(ret'.was) })
                    <=> (ret'.filter = NoFilter \/ agents[k].status = ret'.filter)
          /\ agents' = SelectSeq(agents, LAMBDA r : r.id \notin IdsOf(ret'.was))
          /\ dirs' = dirs \ DirsOf(ret'.was)
          /\ sessions' = sessions \ SessionIdsOf(ret'.was)
          /\ containers' = containers \ ContainerIdsOf(ret'.was)
          /\ ret'.res = "ok"
          /\ ret'.val = Len(ret'.was)]_vars

\* C19: clean_agents never raises; the records it leaves are those it did not
\* match and those whose iteration raised, every other matching record is
\* deleted, and it returns the number of records it deleted.
C19_CleanContinuesAfterFailure ==
    [][ret'.op = "clean_agents" =>
          /\ ret'.res = "ok"
          /\ ret'.failed \subseteq IdsOf(ret'.was)
          /\ agents' = SelectSeq(agents,
                          LAMBDA r : r.id \notin (IdsOf(ret'.was) \ ret'.failed))
          /\ ret'.val = Len(agents) - Len(agents')
          /\ ret'.val = Cardinality(IdsOf(ret'.was) \ ret'.failed)]_vars

C19_Witness ==
    /\ ret.op = "clean_agents"
    /\ Len(ret.was) = 2
    /\ ret.failed = {ret.was[1].id}
    /\ ret.val = 1
    /\ RowIds(agents) = ret.failed

AttachCalled == ret'.op = "attach_agent"
AttachNotFound == UNCHANGED <<agents, dirs, sessions, procs, containers>>
                  /\ ret'.res = "ValueError" /\ ~ret'.delegated
AttachDelegates == UNCHANGED <<agents, dirs, sessions, procs, containers>>
                   /\ ret'.delegated /\ UnitExists(ret'.was)

RowsOf(lst) == { lst[k] : k \in 1..Len(lst) }

\* C26: create_agent on an id that exists raises sqlite3.IntegrityError and
\* leaves both tables as they were; on a new id it adds one row, with the
\* given fields, and leaves the other rows alone.
C26_CreateAgentDuplicate ==
    [][ret'.op = "create_agent" =>
          IF StoreHas(agents, ret'.id)
          THEN /\ ret'.res = "IntegrityError"
               /\ agents' = agents
               /\ agent_outputs' = agent_outputs
          ELSE /\ ret'.res = "ok"
               /\ Len(agents') = Len(agents) + 1
               /\ SubSeq(agents', 1, Len(agents)) = agents
               /\ agent_outputs' = agent_outputs
               /\ LET new == agents'[Len(agents')]
                  IN  /\ new.id = ret'.id
                      /\ new.repo_url = HttpsUrl
                      /\ new.working_dir = get_agent_working_dir(ret'.id)
                      /\ new.status = ret'.status
                      /\ new.container_mode = (IF ret'.container_mode THEN 1 ELSE 0)
                      /\ new.pid = Null
                      /\ ret'.val = new]_vars

C26_Witness ==
    /\ ret.op = "create_agent"
    /\ ret.res = "IntegrityError"
    /\ Len(agents) = 2
    /\ Record(ret.id) # None
    /\ Record(ret.id).status # ret.status

\* C27: get_agent of an id without a record: the store returns None, the
\* manager returns None, nothing is raised and nothing changes.
C27_GetMissingReturnsNone ==
    [][(ret'.op = "get_agent" /\ ~StoreHas(agents, ret'.id)) =>
          /\ ret'.was = None
          /\ ret'.val = None
          /\ ret'.res = "ok"
          /\ UNCHANGED <<agents, agent_outputs, dirs, sessions, procs,
                         containers>>]_vars

C27_Witness ==
    /\ ret.op = "get_agent"
    /\ ret.val = None
    /\ agents # <<>>
    /\ ~StoreHas(agents, ret.id)

\* C28: the rows the store hands to list_agents are all rows (no filter) or
\* exactly the rows whose status is the filter, newest created_at first;
\* list_agents on an empty store returns the empty list.
C28_ListFilteredNewestFirst ==
    [][ret'.op = "list_agents" =>
          /\ RowsOf(ret'.was) \subseteq RowsOf(agents)
          /\ \A k \in 1..Len(agents) :
                (agents[k] \in RowsOf(ret'.was))
                    <=> (ret'.filter = NoFilter \/ agents[k].status = ret'.filter)
          /\ \A j, k \in 1..Len(ret'.was) :
                j < k => ret'.was[j].created_at > ret'.was[k].created_at
          /\ agents = <<>> => (ret'.res = "ok" /\ ret'.val = <<>>)]_vars

\* C21: when the blocking attach command ends by a detach or by an interrupt,
\* attach_agent returns normally and record, working directory and unit are
\* as they were.
C21_DetachReturnsNormally ==
    [][(ret'.op = "attach_agent" /\ ret'.ended \in {"detach", "interrupt"}) =>
          /\ ret'.res = "ok"
          /\ UNCHANGED <<agents, dirs, sessions, procs, containers>>]_vars

Terminal(status) == status \in {"stopped", "error"}

\* C22: a record that is 'stopped' or 'error' keeps its status through every
\* operation for as long as it is in the store.
C22_TerminalStatusKept ==
    [][\A k \in 1..Len(agents) :
          Terminal(agents[k].status) =>
              LET after == store_get_agent(agents', agents[k].id)
              IN  after = None \/ after.status = agents[k].status]_vars

\* the columns of a row that are fixed when it is inserted
Immutable(row) ==
    <<row.id, row.repo_url, row.working_dir, row.container_mode, row.created_at>>

\* C25: whatever the manager does, a record that stays in the store keeps its
\* id, repo_url, working_dir, container_mode and created_at.
C25_ImmutableColumns ==
    [][\A k \in 1..Len(agents) :
          LET after == store_get_agent(agents', agents[k].id)
          IN  after = None \/ Immutable(after) = Immutable(agents[k])]_vars

\* a manager operation that wrote pid or status to a record that stays
C25_Witness ==
    /\ ret.op = "spawn_agent"
    /\ ret.res # "ok"
    /\ ret.inserted
    /\ Record(ret.id) # None
    /\ Record(ret.id).status = "error"
    /\ Len(agents) = 2
    /\ \E k \in 1..Len(agents) : agents[k].status = "running" /\ agents[k].pid # Null

\* the row update_agent(kwargs) makes of row at time now
Updated(row, kwargs, now) ==
    [row EXCEPT !.pid = IF "pid" \in kwargs.keys THEN kwargs.pid ELSE @,
                !.status = IF "status" \in kwargs.keys THEN kwargs.status ELSE @,
                !.updated_at = now]

UpdateFrame ==
    /\ Len(agents') = Len(agents)
    /\ \A k \in 1..Len(agents) :
          agents'[k] = IF agents[k].id = ret'.id
                       THEN Updated(agents[k], ret'.kwargs, utcnow)
                       ELSE agents[k]

\* C29 as stated: update_agent returns true exactly when the record exists,
\* and then the given columns and updated_at change and nothing else;
\* without the record it returns false and nothing changes.
C29_UpdateReturnsExistence ==
    [][ret'.op = "update_agent" =>
          /\ ret'.val = StoreHas(agents, ret'.id)
          /\ UpdateFrame
          /\ agent_outputs' = agent_outputs]_vars

\* C29 amended: with at least one column given, as stated; with no column
\* given update_agent returns false and changes nothing, record or not.
C29_UpdateGivenColumns ==
    [][ret'.op = "update_agent" =>
          /\ agent_outputs' = agent_outputs
          /\ IF ret'.kwargs.keys = {}
             THEN ret'.val = FALSE /\ agents' = agents
             ELSE ret'.val = StoreHas(agents, ret'.id) /\ UpdateFrame]_vars

C29_Witness ==
    /\ ret.op = "update_agent"
    /\ ret.val = TRUE
    /\ ret.kwargs.keys = {"status"}
    /\ Len(agents) = 2
    /\ Record(ret.id).status = "stopped"
    /\ Record(ret.id).pid = Pid(ret.id)
    /\ Record(ret.id).updated_at = utcnow
    /\ Record(ret.id).updated_at > Record(ret.id).created_at

\* C30: every row of agent_outputs belongs to a row of agents.
C30_OutputsBelongToAgents ==
    \A k \in 1..Len(agent_outputs) : StoreHas(agents, agent_outputs[k].agent_id)

\* C23: in every state a reader can find the store in, the steps of a
\* spawn_agent in progress included, a row with status 'running' has a pid
\* that is not NULL.
C23_RunningHasRuntimeRef ==
    \A k \in 1..Len(agents) : agents[k].status = "running" => agents[k].pid # Null

\* a read that ran between the insert and the update of a spawn_agent whose
\* backend has started
C23_Witness ==
    /\ ret.op = "get_agent"
    /\ ret.val # None
    /\ ret.val.status = "spawning"
    /\ ret.val.pid = Null
    /\ \E c \in calls : c.id = ret.id /\ c.pc = "started" /\ c.ref # Null
    /\ \E k \in 1..Len(agents) : agents[k].status = "running"

\* the place of a call in the order stop unit, remove unit, remove
\* directory, write record
Rank(call) ==
    CASE call \in {"container_exists", "stop_container", "kill_session",
                   "terminate_process"} -> 1
      [] call = "remove_container" -> 2
      [] call = "rmtree" -> 3
      [] call \in {"delete_agent", "update_agent"} -> 4
      [] call = "raise" -> 5

InOrder(effects) ==
    \A j, k \in 1..Len(effects) : j < k => Rank(effects[j]) <= Rank(effects[k])

Raised(effects) == effects # <<>> /\ effects[Len(effects)] = "raise"

Made(effects, call) == \E k \in 1..Len(effects) : effects[k] = call

\* what C24 asks of the calls effects that took host h to host r for record was
OrderKept(h, r, was, effects) ==
    /\ InOrder(effects)
    /\ Raised(effects) =>
          /\ store_get_agent(r.agents, was.id) = was
          /\ ~Made(effects, "delete_agent") /\ ~Made(effects, "update_agent")
    /\ ~StoreHas(r.agents, was.id) =>
          /\ was.working_dir \notin r.dirs
          /\ Made(effects, "delete_agent")
    /\ store_get_agent(r.agents, was.id) \notin {None, was} =>
          Made(effects, "update_agent")
    /\ (was.working_dir \in h.dirs /\ was.working_dir \notin r.dirs) =>
          Made(effects, "rmtree")
    /\ (was.id \in h.containers /\ was.id \notin r.containers) =>
          Made(effects, "stop_container") /\ Made(effects, "remove_container")
    /\ (was.id \in h.sessions /\ was.id \notin r.sessions) =>
          Made(effects, "kill_session")

C35_FilteredListHasStatus ==
    (ret.op = "list_agents" /\ ret.res = "ok" /\ ret.filter \in Statuses) =>
        \A k \in 1..Len(ret.val) : ret.val[k].status = ret.filter

\* C36: a spawn_agent that fails on the insert, because the id it drew has a
\* record, leaves that record and its working directory as they were.
C36_CollisionLeavesExisting ==
    [][(ret'.op = "spawn_agent" /\ ret'.res # "ok" /\ ret'.id # NoId
            /\ ~ret'.inserted) =>
          \A k \in 1..Len(agents) :
              agents[k].id = ret'.id =>
                  /\ k \in 1..Len(agents') /\ agents'[k] = agents[k]
                  /\ agents[k].working_dir \in dirs
                        => agents[k].working_dir \in dirs']_vars

\* the record, the working directory and the unit of agent j are as they were
Untouched(j) ==
    /\ store_get_agent(agents', j) = store_get_agent(agents, j)
    /\ get_agent_working_dir(j) \in dirs' <=> get_agent_working_dir(j) \in dirs
    /\ j \in sessions' <=> j \in sessions
    /\ j \in procs' <=> j \in procs
    /\ j \in containers' <=> j \in containers

\* C37: get_agent, attach_agent, stop_agent and delete_agent called with an
\* id leave the record, working directory and unit of every other agent
\* unchanged; attach, stop and delete on an id without a record raise the
\* not-found error and change nothing.
C37_OnlyTargetTouched ==
    [][ret'.op \in {"get_agent", "attach_agent", "stop_agent", "delete_agent"} =>
          /\ \A j \in Ids \ {ret'.id} : Untouched(j)
          /\ (ret'.op # "get_agent" /\ ~StoreHas(agents, ret'.id)) =>
                /\ ret'.res = "ValueError"
                /\ UNCHANGED <<agents, dirs, sessions, procs, containers>>]_vars

\* stop_agent has ended beside another agent, whose session and pane process
\* are alive and whose record is 'running'
C37_Witness ==
    /\ ret.op = "stop_agent" /\ ret.res = "ok"
    /\ \E j \in Ids \ {ret.id} :
          /\ StoreHas(agents, j)
          /\ Record(j).status = "running" /\ Record(j).container_mode = 0
          /\ j \in sessions /\ j \in procs
          /\ get_agent_working_dir(j) \in dirs

\* the host an operation leaves
HostNext ==
    [agents |-> agents', dirs |-> dirs', sessions |-> sessions',
     procs |-> procs', containers |-> containers', utcnow |-> utcnow']

\* every way get_agent(agent_id) can end when it is called again on the host
\* the first call left, with the runtime answering as it did
SecondGet(agent_id) ==
    IF package = "agent_manager"
    THEN { get_agent(HostNext, agent_id) }
    ELSE { fl_get_agent(HostNext, agent_id, f) :
             f \in { g \in FlReadFaults : g.docker /\ agent_id \in g.ok } }

\* C38: get_agent and list_agents create and delete no record and write no
\* record whose status is not 'running'; a get_agent repeated at once returns
\* the record the first call returned and writes nothing.
C38_ReadsWriteOnlyToDemote ==
    [][ret'.op \in {"get_agent", "list_agents"} =>
          /\ Len(agents') = Len(agents)
          /\ \A k \in 1..Len(agents) :
                /\ agents'[k].id = agents[k].id
                /\ agents[k].status # "running" => agents'[k] = agents[k]
          /\ (ret'.op = "get_agent" /\ ret'.res = "ok") =>
                \A r \in SecondGet(ret'.id) :
                    r.ret.val = ret'.val /\ r.agents = agents']_vars

\* C39: a spawn_agent that returns an id does not return the id of an agent
\* whose record was removed while the call was in progress and whose unit is
\* alive.
C39_ReturnedIdHasRecord ==
    (ret.op = "spawn_agent" /\ ret.res = "ok") =>
        \/ StoreHas(agents, ret.id)
        \/ ~(IF ret.kind = "container" THEN ret.id \in containers
             ELSE ret.id \in sessions)

\* C40: a record whose status is 'running' after a step was 'running' or
\* 'spawning' before it: 'running' is entered from 'spawning' only, and a
\* record demoted to 'stopped' (or marked 'error') is never 'running' again.
C40_RunningOnlyFromSpawning ==
    [][\A k \in 1..Len(agents') :
          agents'[k].status = "running" =>
              /\ StoreHas(agents, agents'[k].id)
              /\ Record(agents'[k].id).status \in {"spawning", "running"}]_vars

\* stop_container is among the calls, before remove_container
StopsBeforeRemoving(effects) ==
    \E j, k \in 1..Len(effects) :
        j < k /\ effects[j] = "stop_container" /\ effects[k] = "remove_container"

\* C31: remove(force=False) attempts to stop the container before removing
\* it; remove(force=True) removes the container even while it runs; both
\* return without error and change nothing when the container does not
\* exist.
C31_RemoveStopsFirst ==
    ret.op = "remove" =>
        /\ (~ret.force /\ ret.id \in ret.before) =>
              StopsBeforeRemoving(ret.effects)
        /\ (ret.force /\ ret.id \in ret.before
                /\ ret.f = NoBackendFault) =>
              ret.id \notin containers
        /\ ret.id \notin ret.before =>
              ret.res = "ok" /\ containers = ret.before

\* C32: the liveness probe never raises; it returns true only when the
\* container (the process) exists and runs, and false for a missing unit and
\* for any failure to inspect it.
C32_ProbeNeverRaises ==
    /\ ret.op = "is_running" =>
          /\ ret.res = "ok"
          /\ ret.val = TRUE => ret.id \in ret.before
          /\ (ret.id \notin ret.before \/ (~ret.known /\ ~ret.f.probe)
                \/ ~ret.f.inspect) => ret.val = FALSE
    /\ ret.op = "is_process_running" =>
          /\ ret.res = "ok"
          /\ ret.val = (ret.pid.t = "int" /\ ret.pid.v \in ret.before)

\* C33: when splitting or linking the pane of one agent fails and every
\* other command succeeds, attach_all_agents skips that agent: it does not
\* raise, the other received agents whose session exists are linked, and the
\* dashboard is attached.
C33_PaneFailureSkipped ==
    (ret.op = "attach_all_agents" /\ ret.received # <<>>
        /\ ret.f.tmux /\ ret.f.new /\ ret.f.layout /\ ret.f.attach) =>
        /\ ret.res = "ok"
        /\ ret.attached
        /\ \A k \in 2..Len(ret.received) :
              (ret.received[k].id \in sessions /\ ret.received[k].id \in ret.f.panes)
                  => ret.received[k].id \in ret.linked

\* C34: opening the store on a file whose agents table has no container_mode
\* column adds the column and keeps every row, each with the values it had
\* in every column it had.
C34_MigrationKeepsRows ==
    [][(ret'.op = "open" /\ columns # {} /\ "container_mode" \notin columns) =>
          /\ columns' = columns \cup {"container_mode"}
          /\ Len(agents') = Len(agents)
          /\ \A k \in 1..Len(agents) :
                /\ DOMAIN agents'[k] = columns'
                /\ \A c \in columns : agents'[k][c] = agents[k][c]]_vars

\* the store has been opened on a file with two rows and no container_mode
\* column
C34_Witness ==
    /\ ret.op = "open" /\ ret.migrated
    /\ Len(ret.was) = 2 /\ Len(agents) = 2
    /\ "container_mode" \in columns
    /\ \A k \in 1..2 : agents[k].container_mode = 0 /\ agents[k].id = ret.was[k].id

====
